---------------------------- MODULE Spec2Model ----------------------------
(***************************************************************************)
(* A model of the bux sandbox core: the length-prefixed wire codec         *)
(* (bux-proto), the guest agent's session and exec handler (bux-guest),    *)
(* the host client (bux) and the OCI image store (bux-oci).                *)
(*                                                                         *)
(* Byte strings are kept run-length encoded (a sequence of runs            *)
(* [b |-> byte, n |-> count], adjacent runs of different bytes), so that a *)
(* payload of 16 MiB is one run and the real MAX_FRAME can be used.        *)
(***************************************************************************)
EXTENDS Integers, Sequences, FiniteSets, TLC

\* ------------------------------------------------------------------ bytes

Rep(b, n) == IF n = 0 THEN <<>> ELSE <<[b |-> b, n |-> n]>>

RECURSIVE BLen(_)
BLen(s) == IF s = <<>> THEN 0 ELSE s[1].n + BLen(Tail(s))

\* Concatenation, merging the two runs that meet when they hold the same byte.
BCat(s, t) ==
  IF s = <<>> THEN t
  ELSE IF t = <<>> THEN s
  ELSE IF s[Len(s)].b = t[1].b
       THEN SubSeq(s, 1, Len(s) - 1)
              \o <<[b |-> t[1].b, n |-> s[Len(s)].n + t[1].n]>>
              \o Tail(t)
       ELSE s \o t

\* The first k bytes of s (all of s when it is shorter).
RECURSIVE BTake(_, _)
BTake(s, k) ==
  IF k <= 0 \/ s = <<>> THEN <<>>
  ELSE IF s[1].n >= k THEN <<[b |-> s[1].b, n |-> k]>>
  ELSE <<s[1]>> \o BTake(Tail(s), k - s[1].n)

\* s without its first k bytes.
RECURSIVE BDrop(_, _)
BDrop(s, k) ==
  IF k <= 0 \/ s = <<>> THEN s
  ELSE IF s[1].n > k THEN <<[b |-> s[1].b, n |-> s[1].n - k]>> \o Tail(s)
  ELSE BDrop(Tail(s), k - s[1].n)

\* Byte number i (from 1) of s; i <= BLen(s).
RECURSIVE BAt(_, _)
BAt(s, i) == IF i <= s[1].n THEN s[1].b ELSE BAt(Tail(s), i - s[1].n)

\* A plain sequence of bytes as a byte string.
RECURSIVE B(_)
B(q) == IF q = <<>> THEN <<>> ELSE BCat(Rep(q[1], 1), B(Tail(q)))

RECURSIVE BCatAll(_)
BCatAll(ss) == IF ss = <<>> THEN <<>> ELSE BCat(ss[1], BCatAll(Tail(ss)))

RECURSIVE Pow2(_)
Pow2(k) == IF k = 0 THEN 1 ELSE 2 * Pow2(k - 1)

\* --------------------------------------------------- postcard wire format
\* The serde derive of Request/Response/ExecReq under postcard: an enum is its
\* variant index as a varint followed by the fields in declaration order; u32
\* and lengths are LEB128 varints, i32 is zigzag then varint, Vec<u8> and
\* String are a varint length followed by the bytes, Option is a 0/1 byte
\* followed by the value, bool is a 0/1 byte.

RECURSIVE VarintSeq(_)
VarintSeq(n) ==
  IF n < 128 THEN <<n>> ELSE <<128 + (n % 128)>> \o VarintSeq(n \div 128)

EncU(n) == B(VarintSeq(n))

ZigZag(i) == IF i >= 0 THEN 2 * i ELSE -2 * i - 1
UnZigZag(u) == IF u % 2 = 0 THEN u \div 2 ELSE -((u + 1) \div 2)

EncI(i) == EncU(ZigZag(i))
EncBytes(d) == BCat(EncU(BLen(d)), d)
EncBool(f) == IF f THEN Rep(1, 1) ELSE Rep(0, 1)

None == [some |-> FALSE]
Some(x) == [some |-> TRUE, v |-> x]

EncOptBytes(o) == IF o.some THEN BCat(Rep(1, 1), EncBytes(o.v)) ELSE Rep(0, 1)
EncOptU(o) == IF o.some THEN BCat(Rep(1, 1), EncU(o.v)) ELSE Rep(0, 1)

EncStrs(ss) ==
  BCat(EncU(Len(ss)), BCatAll([i \in 1..Len(ss) |-> EncBytes(ss[i])]))

EncExecReq(e) ==
  BCatAll(<<EncBytes(e.cmd), EncStrs(e.args), EncStrs(e.env),
            EncOptBytes(e.cwd), EncOptU(e.uid), EncOptU(e.gid),
            EncBool(e.stdin)>>)

EncRequest(m) ==
  CASE m.t = "Exec" -> BCat(EncU(0), EncExecReq(m.req))
    [] m.t = "Stdin" -> BCatAll(<<EncU(1), EncU(m.pid), EncBytes(m.data)>>)
    [] m.t = "StdinClose" -> BCat(EncU(2), EncU(m.pid))
    [] m.t = "Signal" -> BCatAll(<<EncU(3), EncU(m.pid), EncI(m.signal)>>)
    [] m.t = "ReadFile" -> BCat(EncU(4), EncBytes(m.path))
    [] m.t = "WriteFile" ->
         BCatAll(<<EncU(5), EncBytes(m.path), EncBytes(m.data), EncU(m.mode)>>)
    [] m.t = "CopyIn" -> BCatAll(<<EncU(6), EncBytes(m.dest), EncBytes(m.tar)>>)
    [] m.t = "CopyOut" -> BCat(EncU(7), EncBytes(m.path))
    [] m.t = "Ping" -> EncU(8)
    [] m.t = "Shutdown" -> EncU(9)

EncResponse(m) ==
  CASE m.t = "Started" -> BCat(EncU(0), EncU(m.pid))
    [] m.t = "Stdout" -> BCat(EncU(1), EncBytes(m.data))
    [] m.t = "Stderr" -> BCat(EncU(2), EncBytes(m.data))
    [] m.t = "Exit" -> BCat(EncU(3), EncI(m.code))
    [] m.t = "Error" -> BCat(EncU(4), EncBytes(m.msg))
    [] m.t = "Pong" -> EncU(5)
    [] m.t = "FileData" -> BCat(EncU(6), EncBytes(m.data))
    [] m.t = "TarData" -> BCat(EncU(7), EncBytes(m.data))
    [] m.t = "Ok" -> EncU(8)

\* Parsers return [ok, v, r]: the value read and the bytes left, or ok = FALSE.
Bad == [ok |-> FALSE]
Got(v, r) == [ok |-> TRUE, v |-> v, r |-> r]

\* The `?` of a deserializer: go on with what p has read, or fail as p did.
Then(p, K(_)) == IF p.ok THEN K(p) ELSE Bad

\* A varint of at most 4 bytes. Every number of the model is below 2^28; a
\* longer varint is reported as an error.
RECURSIVE DecVar(_, _, _)
DecVar(s, i, acc) ==
  IF i > BLen(s) \/ i > 4 THEN Bad
  ELSE IF BAt(s, i) < 128
       THEN Got(acc + BAt(s, i) * Pow2(7 * (i - 1)), BDrop(s, i))
       ELSE DecVar(s, i + 1, acc + (BAt(s, i) % 128) * Pow2(7 * (i - 1)))

DecU(s) == DecVar(s, 1, 0)

DecI(s) == Then(DecU(s), LAMBDA u : Got(UnZigZag(u.v), u.r))

\* Vec<u8>: the length, then that many bytes (an error when fewer are left).
DecBytes(s) ==
  Then(DecU(s), LAMBDA n :
    IF BLen(n.r) < n.v THEN Bad
    ELSE Got(BTake(n.r, n.v), BDrop(n.r, n.v)))

\* String: as Vec<u8>, and the bytes must be UTF-8 (here: ASCII).
RECURSIVE AllAscii(_)
AllAscii(s) == s = <<>> \/ (s[1].b < 128 /\ AllAscii(Tail(s)))

DecStr(s) == Then(DecBytes(s), LAMBDA d : IF AllAscii(d.v) THEN d ELSE Bad)

DecBool(s) ==
  IF s = <<>> THEN Bad
  ELSE IF BAt(s, 1) > 1 THEN Bad
  ELSE Got(BAt(s, 1) = 1, BDrop(s, 1))

DecOptStr(s) ==
  Then(DecBool(s), LAMBDA t :
    IF ~t.v THEN Got(None, t.r)
    ELSE Then(DecStr(t.r), LAMBDA x : Got(Some(x.v), x.r)))

DecOptU(s) ==
  Then(DecBool(s), LAMBDA t :
    IF ~t.v THEN Got(None, t.r)
    ELSE Then(DecU(t.r), LAMBDA x : Got(Some(x.v), x.r)))

RECURSIVE DecStrN(_, _, _)
DecStrN(s, k, acc) ==
  IF k = 0 THEN Got(acc, s)
  ELSE Then(DecStr(s), LAMBDA x : DecStrN(x.r, k - 1, Append(acc, x.v)))

DecStrs(s) ==
  Then(DecU(s), LAMBDA n :
    IF n.v > BLen(n.r) THEN Bad ELSE DecStrN(n.r, n.v, <<>>))

DecExecReq(s) ==
  Then(DecStr(s), LAMBDA cmd :
  Then(DecStrs(cmd.r), LAMBDA args :
  Then(DecStrs(args.r), LAMBDA env :
  Then(DecOptStr(env.r), LAMBDA cwd :
  Then(DecOptU(cwd.r), LAMBDA uid :
  Then(DecOptU(uid.r), LAMBDA gid :
  Then(DecBool(gid.r), LAMBDA sti :
    Got([cmd |-> cmd.v, args |-> args.v, env |-> env.v, cwd |-> cwd.v,
         uid |-> uid.v, gid |-> gid.v, stdin |-> sti.v], sti.r))))))))

\* The fields of the Request variant with index tag, read from s.
DecRequestFields(tag, s) ==
  CASE tag = 0 ->
         Then(DecExecReq(s), LAMBDA e : Got([t |-> "Exec", req |-> e.v], e.r))
    [] tag = 1 ->
         Then(DecU(s), LAMBDA pid :
         Then(DecBytes(pid.r), LAMBDA d :
           Got([t |-> "Stdin", pid |-> pid.v, data |-> d.v], d.r)))
    [] tag = 2 ->
         Then(DecU(s), LAMBDA pid :
           Got([t |-> "StdinClose", pid |-> pid.v], pid.r))
    [] tag = 3 ->
         Then(DecU(s), LAMBDA pid :
         Then(DecI(pid.r), LAMBDA sg :
           Got([t |-> "Signal", pid |-> pid.v, signal |-> sg.v], sg.r)))
    [] tag = 4 ->
         Then(DecStr(s), LAMBDA p : Got([t |-> "ReadFile", path |-> p.v], p.r))
    [] tag = 5 ->
         Then(DecStr(s), LAMBDA p :
         Then(DecBytes(p.r), LAMBDA d :
         Then(DecU(d.r), LAMBDA md :
           Got([t |-> "WriteFile", path |-> p.v, data |-> d.v,
                mode |-> md.v], md.r))))
    [] tag = 6 ->
         Then(DecStr(s), LAMBDA p :
         Then(DecBytes(p.r), LAMBDA d :
           Got([t |-> "CopyIn", dest |-> p.v, tar |-> d.v], d.r)))
    [] tag = 7 ->
         Then(DecStr(s), LAMBDA p : Got([t |-> "CopyOut", path |-> p.v], p.r))
    [] tag = 8 -> Got([t |-> "Ping"], s)
    [] tag = 9 -> Got([t |-> "Shutdown"], s)
    [] OTHER -> Bad

\* postcard::from_bytes::<Request>: bytes left after the value are ignored.
DecRequest(s) == Then(DecU(s), LAMBDA tag : DecRequestFields(tag.v, tag.r))

\* The fields of the Response variant with index tag, read from s.
DecResponseFields(tag, s) ==
  CASE tag = 0 ->
         Then(DecU(s), LAMBDA pid : Got([t |-> "Started", pid |-> pid.v], pid.r))
    [] tag = 1 ->
         Then(DecBytes(s), LAMBDA d : Got([t |-> "Stdout", data |-> d.v], d.r))
    [] tag = 2 ->
         Then(DecBytes(s), LAMBDA d : Got([t |-> "Stderr", data |-> d.v], d.r))
    [] tag = 3 ->
         Then(DecI(s), LAMBDA c : Got([t |-> "Exit", code |-> c.v], c.r))
    [] tag = 4 ->
         Then(DecStr(s), LAMBDA e : Got([t |-> "Error", msg |-> e.v], e.r))
    [] tag = 5 -> Got([t |-> "Pong"], s)
    [] tag = 6 ->
         Then(DecBytes(s), LAMBDA d : Got([t |-> "FileData", data |-> d.v], d.r))
    [] tag = 7 ->
         Then(DecBytes(s), LAMBDA d : Got([t |-> "TarData", data |-> d.v], d.r))
    [] tag = 8 -> Got([t |-> "Ok"], s)
    [] OTHER -> Bad

DecResponse(s) == Then(DecU(s), LAMBDA tag : DecResponseFields(tag.v, tag.r))

\* ------------------------------------------------------------ frame codec

MAX_FRAME == 16777216

\* u32::to_be_bytes of a length below 2^30.
BE32(n) ==
  <<n \div 16777216, (n \div 65536) % 256, (n \div 256) % 256, n % 256>>

\* u32::from_be_bytes; a header of 2^30 or more is reported as 2^30 (the
\* integers of the checker are 32 bits wide, and only the comparison with
\* MAX_FRAME reads such a value).
LenOf(h) ==
  IF h[1] >= 64 THEN 1073741824
  ELSE h[1] * 16777216 + h[2] * 65536 + h[3] * 256 + h[4]

\* send, lines 17-22: the frame written for a serialized payload. Every
\* payload of the model is shorter than u32::MAX, so u32::try_from succeeds.
Frame(payload) == BCat(B(BE32(BLen(payload))), payload)

\* The length check of recv (line 32).
LenMutGe(len) == len >= MAX_FRAME
TooLong(len) == len > MAX_FRAME

Decode(dec, payload) ==
  IF dec = "Request" THEN DecRequest(payload) ELSE DecResponse(payload)

Hdr4(bs) == <<BAt(bs, 1), BAt(bs, 2), BAt(bs, 3), BAt(bs, 4)>>

Min(a, b) == IF a < b THEN a ELSE b

\* A recv future holds the bytes its read_exact calls have taken so far.
\* PollRecv polls it once: it takes from the readable bytes what the pending
\* read_exact asks for and either stays pending or completes. dec is "Request"
\* or "Response", the type recv is called at; eof says the stream has ended, so
\* that a short read_exact fails instead of waiting.

\* What a read_exact that wants the future to hold `total` bytes takes.
Need(total, got, avail) == Min(total - Min(total, BLen(got)), BLen(avail))

\* Line 41: postcard::from_bytes on the payload.
PollDecoded(g, a, d) ==
  IF d.ok
  THEN [st |-> "ok", got |-> g, rest |-> a, m |-> d.v]
  ELSE [st |-> "err", got |-> g, rest |-> a,
        err |-> "InvalidData", why |-> "postcard"]

\* Lines 39-40: read_exact of the len payload bytes.
PollPayload(len, g, a, eof, dec) ==
  IF BLen(g) < 4 + len
  THEN [st |-> IF eof THEN "err" ELSE "pending", got |-> g, rest |-> a,
        err |-> "UnexpectedEof", why |-> "payload"]
  ELSE PollDecoded(g, a, Decode(dec, BDrop(g, 4)))

\* Lines 31-38: the header is read; the length check.
PollLen(len, g, a, eof, dec) ==
  IF TooLong(len)
  THEN [st |-> "err", got |-> g, rest |-> a,
        err |-> "InvalidData", why |-> "limit"]
  ELSE PollPayload(len, BCat(g, BTake(a, Need(4 + len, g, a))),
                   BDrop(a, Need(4 + len, g, a)), eof, dec)

\* A header read that reports a short read as InvalidData.
ShortIsInvalid(g, a, eof, dec) ==
  IF BLen(g) < 4
  THEN [st |-> IF eof THEN "err" ELSE "pending", got |-> g, rest |-> a,
        err |-> "InvalidData", why |-> "header"]
  ELSE PollLen(LenOf(Hdr4(g)), g, a, eof, dec)

\* Lines 29-30: read_exact of the 4 header bytes.
PollHeader(g, a, eof, dec) ==
  IF BLen(g) < 4
  THEN [st |-> IF eof THEN "err" ELSE "pending", got |-> g, rest |-> a,
        err |-> "UnexpectedEof", why |-> "header"]
  ELSE PollLen(LenOf(Hdr4(g)), g, a, eof, dec)

PollRecv(got, avail, eof, dec) ==
  PollHeader(BCat(got, BTake(avail, Need(4, got, avail))),
             BDrop(avail, Need(4, got, avail)), eof, dec)

\* ------------------------------------------------- sample values, bounds

MaxMsgs == 2

Str_a == B(<<97>>)
Str_bc == B(<<98, 99>>)
Str_abc == B(<<97, 98, 99>>)
Str_hi == B(<<104, 105, 10>>)
Str_ls == B(<<108, 115>>)
Str_tmp == B(<<47, 116>>)
\* 16 MiB of zero bytes: any message carrying it serializes to more than
\* MAX_FRAME bytes.
Blob16M == Rep(0, MAX_FRAME)
\* FileData of this blob serializes to exactly MAX_FRAME bytes (1 + 4 + n).
BlobFit == Rep(0, MAX_FRAME - 5)

ExecReqNew(cmd) ==
  [cmd |-> cmd, args |-> <<>>, env |-> <<>>, cwd |-> None, uid |-> None,
   gid |-> None, stdin |-> FALSE]

ExecReqFull ==
  [cmd |-> Str_ls, args |-> <<Str_a, Str_bc>>, env |-> <<Str_abc>>,
   cwd |-> Some(Str_tmp), uid |-> Some(1000), gid |-> Some(1000),
   stdin |-> TRUE]

SampleRequests ==
  { [t |-> "Exec", req |-> ExecReqNew(Str_ls)],
    [t |-> "Exec", req |-> ExecReqFull],
    [t |-> "Stdin", pid |-> 42, data |-> Str_abc],
    [t |-> "StdinClose", pid |-> 42],
    [t |-> "Signal", pid |-> 300, signal |-> 15],
    [t |-> "ReadFile", path |-> Str_tmp],
    [t |-> "WriteFile", path |-> Str_tmp, data |-> Str_hi, mode |-> 420],
    [t |-> "WriteFile", path |-> Str_tmp, data |-> Blob16M, mode |-> 420],
    [t |-> "CopyIn", dest |-> Str_tmp, tar |-> Str_abc],
    [t |-> "CopyOut", path |-> Str_tmp],
    [t |-> "Ping"],
    [t |-> "Shutdown"] }

SampleResponses ==
  { [t |-> "Started", pid |-> 42],
    [t |-> "Stdout", data |-> Str_hi],
    [t |-> "Stderr", data |-> <<>>],
    [t |-> "Exit", code |-> -1],
    [t |-> "Error", msg |-> Str_abc],
    [t |-> "Pong"],
    [t |-> "FileData", data |-> BlobFit],
    [t |-> "FileData", data |-> Blob16M],
    [t |-> "TarData", data |-> Str_abc],
    [t |-> "Ok"] }

Samples(kind) == IF kind = "Request" THEN SampleRequests ELSE SampleResponses
Encode(kind, m) == IF kind = "Request" THEN EncRequest(m) ELSE EncResponse(m)

\* Headers a peer that does not use send may write (the 32 MiB one is that
\* of tests::rejects_oversized_frame).
RawHeaders ==
  { BE32(0), BE32(1), BE32(MAX_FRAME), BE32(MAX_FRAME + 1),
    BE32(2 * MAX_FRAME), <<255, 255, 255, 255>> }

\* ----------------------------------------- codec: one stream, send and recv
\* A writer calls send (or writes a raw header) on one end of a byte stream;
\* a reader calls recv, again and again, on the other end.

VARIABLES
  cKind,    \* the message type of the stream: "Request" or "Response"
  cWire,    \* bytes written and not yet read
  cEof,     \* the writer has closed its end
  cSent,    \* the messages send has written, in order
  cRaw,     \* a raw header was written (the stream is not send's alone)
  cGot,     \* the bytes the pending recv has taken so far
  cOut,     \* what the recv calls returned, in order
  cBytes    \* the number of bytes written to the stream so far

codecVars == <<cKind, cWire, cEof, cSent, cRaw, cGot, cOut, cBytes>>

CodecInit ==
  /\ cKind \in {"Request", "Response"}
  /\ cWire = <<>>
  /\ cEof = FALSE
  /\ cSent = <<>>
  /\ cRaw = FALSE
  /\ cGot = <<>>
  /\ cOut = <<>>
  /\ cBytes = 0

\* send(w, msg): serialize, assemble header and payload, write_all, flush.
Written == Len(cSent) + (IF cRaw THEN 1 ELSE 0)

CSend(m) ==
  /\ ~cEof
  /\ Written < MaxMsgs
  /\ cWire' = BCat(cWire, Frame(Encode(cKind, m)))
  /\ cSent' = Append(cSent, m)
  /\ cBytes' = cBytes + 4 + BLen(Encode(cKind, m))
  /\ UNCHANGED <<cKind, cEof, cRaw, cGot, cOut>>

\* A peer writes four header bytes of its own.
CRawHeader(h) ==
  /\ ~cEof
  /\ ~cRaw
  /\ Written < MaxMsgs
  /\ cWire' = BCat(cWire, B(h))
  /\ cRaw' = TRUE
  /\ cBytes' = cBytes + 4
  /\ UNCHANGED <<cKind, cEof, cSent, cGot, cOut>>

CClose ==
  /\ ~cEof
  /\ cEof' = TRUE
  /\ UNCHANGED <<cKind, cWire, cSent, cRaw, cGot, cOut, cBytes>>

\* recv(r) is polled: it returns, or stays pending with what it has read.
\* The outcome records the header read and the number of bytes taken.
CRecv ==
  /\ Len(cOut) <= MaxMsgs
  /\ cWire # <<>> \/ cEof
  /\ LET p == PollRecv(cGot, cWire, cEof, cKind) IN
     /\ cWire' = p.rest
     /\ IF p.st = "pending"
        THEN /\ p.got # cGot
             /\ cGot' = p.got
             /\ cOut' = cOut
        ELSE /\ cGot' = <<>>
             /\ cOut' = Append(cOut,
                  IF p.st = "ok"
                  THEN [ok |-> TRUE, m |-> p.m, used |-> BLen(p.got),
                        hdr |-> Hdr4(p.got)]
                  ELSE [ok |-> FALSE, err |-> p.err, why |-> p.why,
                        used |-> BLen(p.got),
                        hdr |-> IF BLen(p.got) >= 4 THEN Hdr4(p.got)
                                ELSE <<>>])
  /\ UNCHANGED <<cKind, cEof, cSent, cRaw, cBytes>>

\* C1. Codec round trip: on a stream written by send alone, the i-th recv
\* returns the i-th message sent, for every message of every variant.
C1_RoundTrip ==
  ~cRaw =>
    \A i \in 1..Min(Len(cOut), Len(cSent)) :
      cOut[i].ok /\ cOut[i].m = cSent[i]

\* Round trip for the messages whose serialized form is at most MAX_FRAME.
FitsFrame(kind, m) == BLen(Encode(kind, m)) <= MAX_FRAME

RoundTripFitting ==
  (~cRaw /\ \A i \in 1..Len(cSent) : FitsFrame(cKind, cSent[i])) =>
    \A i \in 1..Min(Len(cOut), Len(cSent)) :
      /\ cOut[i].ok
      /\ cOut[i].m = cSent[i]
      /\ cOut[i].used = 4 + BLen(Encode(cKind, cSent[i]))

RECURSIVE SumUsed(_)
SumUsed(out) == IF out = <<>> THEN 0 ELSE out[1].used + SumUsed(Tail(out))

\* C2. A recv that has read a header N > MAX_FRAME fails with InvalidData from
\* the length check having taken the 4 header bytes and nothing else (every
\* other byte written is still unread); a header N <= MAX_FRAME is never
\* rejected by the length check.
C2_LengthCheck ==
  /\ cBytes = SumUsed(cOut) + BLen(cGot) + BLen(cWire)
  /\ \A i \in 1..Len(cOut) :
       LET o == cOut[i] IN
       o.hdr # <<>> =>
         IF LenOf(o.hdr) > MAX_FRAME
         THEN ~o.ok /\ o.err = "InvalidData" /\ o.why = "limit" /\ o.used = 4
         ELSE o.ok \/ o.why # "limit"

\* Both cases have happened: a frame of exactly MAX_FRAME bytes was returned,
\* and a longer one was rejected with its payload still unread.
C2_Witness ==
  /\ \E i \in 1..Len(cOut) : cOut[i].ok /\ LenOf(cOut[i].hdr) = MAX_FRAME
  /\ \E j \in 1..Len(cOut) :
       ~cOut[j].ok /\ cOut[j].why = "limit" /\ LenOf(cOut[j].hdr) > MAX_FRAME
  /\ BLen(cWire) > MAX_FRAME

\* C32. Every frame send has written carries a length header that the
\* length check of recv accepts, and a payload of at most MAX_FRAME bytes.
C32_FrameSizeSymmetry ==
  \A i \in 1..Len(cSent) :
    LET f == Frame(Encode(cKind, cSent[i])) IN
    /\ ~TooLong(LenOf(Hdr4(f)))
    /\ BLen(f) - 4 <= MAX_FRAME

\* On a stream written by send alone, recv has rejected a header by its
\* length check: send returned Ok for a frame recv does not accept.
SendFrameRejected ==
  /\ ~cRaw
  /\ \E i \in 1..Len(cOut) :
       /\ ~cOut[i].ok /\ cOut[i].why = "limit"
       /\ i <= Len(cSent)
       /\ cOut[i].hdr = Hdr4(Frame(Encode(cKind, cSent[i])))
       /\ \A j \in 1..(i - 1) : cOut[j].ok

\* ------------------------------------------- guest agent: session and exec
\* One connection to the agent. The host side writes request frames into the
\* stream; the bytes reach the agent's reader in pieces of any size. The agent
\* runs session(): recv, dispatch, respond, and for Exec the select loop of
\* exec_cmd over the host stream and the child's stdout and stderr.

VARIABLES
  script,    \* the request frames this host will write, in order
  hIdx,      \* how many of them it has written
  net,       \* host -> agent bytes written and not yet readable by the agent
  rbuf,      \* host -> agent bytes readable by the agent (socket and BufReader)
  hostGone,  \* the host has closed the connection
  a2h,       \* agent -> host bytes written and not yet read by the host
  ag,        \* the agent's session: pc, the recv future's bytes, exec locals
  child,     \* the child process of the running exec and its pipes
  aReqs,     \* the requests the session has dispatched, with their outcome
  aLog       \* the response frames the agent has written, each with the
             \* number of the request it was written for

agentVars == <<script, hIdx, net, rbuf, hostGone, a2h, ag, child, aReqs, aLog>>

CHILD_PID == 42
BUF_SIZE == 4096
SIGTERM == 15

\* The programs of the guest image: /bin/echo hi, /bin/cat, a program that
\* writes to stderr and exits 1, and a path that cannot be spawned.
Cmd_echo == B(<<101>>)
Cmd_cat == B(<<99>>)
Cmd_warn == B(<<119>>)
Cmd_none == B(<<120>>)

Program(cmd) ==
  CASE cmd = Cmd_echo -> "echo"
    [] cmd = Cmd_cat -> "cat"
    [] cmd = Cmd_warn -> "warn"
    [] OTHER -> "none"

NoChild ==
  [st |-> "none", kind |-> "none", piped |-> FALSE, step |-> 0, inp |-> <<>>,
   so |-> <<>>, se |-> <<>>, code |-> None, fed |-> <<>>]

\* Command::spawn with piped stdout and stderr, and piped stdin iff req.stdin.
Spawned(req) ==
  [st |-> "run", kind |-> Program(req.cmd), piped |-> req.stdin, step |-> 0,
   inp |-> <<>>, so |-> <<>>, se |-> <<>>, code |-> None, fed |-> <<>>]

AgentStart ==
  [pc |-> "recv", rx |-> <<>>, stdin |-> FALSE, outDone |-> FALSE,
   errDone |-> FALSE, res |-> "run", lost |-> 0,
   eaten |-> 0, rerr |-> "none", rgot |-> <<>>, readErr |-> FALSE]

\* The reader is at end of stream: the host is gone and nothing is in flight.
HEof == hostGone /\ net = <<>>

\* The record of a request the session dispatches: whether its child was
\* spawned, how its handler ended ("run" while it runs), and n, its number
\* among the request frames the agent has read from the host.
Handled(m, spawned, fin) ==
  [m |-> m, spawned |-> spawned, fin |-> fin,
   n |-> Len(aReqs) + ag.eaten + 1]

\* bux_proto::send on the agent's writer, for the request being handled: the
\* frames are written, or the write fails because the host is gone.
Wrote(ms) ==
  /\ a2h' = BCat(a2h, BCatAll([i \in 1..Len(ms) |-> Frame(EncResponse(ms[i]))]))
  /\ aLog' = aLog \o [i \in 1..Len(ms) |-> [rq |-> Len(aReqs'), m |-> ms[i]]]

Ended(res) == [ag EXCEPT !.pc = "ended", !.res = res, !.rx = <<>>]

\* What the agent writes on a successful spawn (line 150).
NoStarted(pid) == <<>>
SpawnReply(pid) == <<[t |-> "Started", pid |-> pid]>>

\* A failed spawn answered with an Error and an Exit.
ErrorThenExit(e) == <<[t |-> "Error", msg |-> e], [t |-> "Exit", code |-> -1]>>

\* What the agent writes when the spawn fails (line 146).
SpawnError(e) == <<[t |-> "Error", msg |-> e]>>

\* A loop that ends when one of the streams is done.
EitherDone(o, e) == o \/ e

\* The loop of exec_cmd ends when both streams are done (line 163).
LoopDone(o, e) == o /\ e

\* status.code().unwrap_or(-1) (line 208).
ExitCode(code) == IF code.some THEN code.v ELSE -1

\* libc::kill(pid, signal): a terminating signal to the running child ends it
\* without an exit code.
Killed(c, pid, sig) ==
  IF c.st = "run" /\ pid = CHILD_PID /\ sig = SIGTERM
  THEN [c EXCEPT !.st = "dead", !.code = None, !.inp = <<>>]
  ELSE c

\* A session that ends when a handler has an Error to report.
EndOnError(m, ms) ==
  IF hostGone \/ ms[1].t = "Error"
  THEN /\ aReqs' = Append(aReqs, Handled(m, FALSE, "err"))
       /\ ag' = Ended("err")
       /\ UNCHANGED <<a2h, aLog>>
  ELSE /\ aReqs' = Append(aReqs, Handled(m, FALSE, "ok"))
       /\ Wrote(ms)
       /\ ag' = ag

\* One handler that answers with the frames ms and returns to the session
\* loop (Signal, ReadFile, WriteFile, CopyIn, CopyOut, Ping, Stdin, StdinClose,
\* and Exec when the spawn fails): `send(...).await?`.
Respond(m, ms) ==
  IF hostGone
  THEN /\ aReqs' = Append(aReqs, Handled(m, FALSE, "err"))
       /\ ag' = Ended("err")
       /\ UNCHANGED <<a2h, aLog>>
  ELSE /\ aReqs' = Append(aReqs, Handled(m, FALSE, "ok"))
       /\ Wrote(ms)
       /\ ag' = ag

\* A Shutdown arm that goes back to the session loop.
NoExit(a) == a

\* std::process::exit(0) (line 82): the agent process is gone.
ProcessExit(a) == [a EXCEPT !.pc = "exited"]

\* session(), lines 66-88: the match on the request.
Dispatch(m) ==
  CASE m.t = "Exec" ->
         IF Program(m.req.cmd) = "none"
         THEN /\ Respond(m, SpawnError(Str_abc))
              /\ child' = child
         ELSE /\ child' = Spawned(m.req)
              /\ IF hostGone
                 THEN /\ aReqs' = Append(aReqs, Handled(m, TRUE, "err"))
                      /\ ag' = Ended("err")
                      /\ UNCHANGED <<a2h, aLog>>
                 ELSE /\ aReqs' = Append(aReqs, Handled(m, TRUE, "run"))
                      /\ Wrote(SpawnReply(CHILD_PID))
                      /\ ag' = [ag EXCEPT !.pc = "exec", !.rx = <<>>,
                                          !.stdin = m.req.stdin,
                                          !.outDone = FALSE, !.errDone = FALSE,
                                          !.readErr = FALSE]
    [] m.t = "Signal" ->
         /\ child' = Killed(child, m.pid, m.signal)
         /\ Respond(m, <<[t |-> "Ok"]>>)
    [] m.t = "ReadFile" ->
         /\ child' = child
         /\ \E found \in BOOLEAN :
              Respond(m, <<IF found THEN [t |-> "FileData", data |-> Str_hi]
                           ELSE [t |-> "Error", msg |-> Str_abc]>>)
    [] m.t \in {"WriteFile", "CopyIn"} ->
         /\ child' = child
         /\ \E done \in BOOLEAN :
              Respond(m, <<IF done THEN [t |-> "Ok"]
                           ELSE [t |-> "Error", msg |-> Str_abc]>>)
    [] m.t = "CopyOut" ->
         /\ child' = child
         /\ \E found \in BOOLEAN :
              Respond(m, <<IF found THEN [t |-> "TarData", data |-> Str_abc]
                           ELSE [t |-> "Error", msg |-> Str_abc]>>)
    [] m.t = "Ping" ->
         /\ child' = child
         /\ Respond(m, <<[t |-> "Pong"]>>)
    [] m.t = "Shutdown" ->
         \* send Ok, flush, std::process::exit(0)
         /\ child' = child
         /\ IF hostGone
            THEN /\ aReqs' = Append(aReqs, Handled(m, FALSE, "err"))
                 /\ ag' = Ended("err")
                 /\ UNCHANGED <<a2h, aLog>>
            ELSE /\ aReqs' = Append(aReqs, Handled(m, FALSE, "ok"))
                 /\ Wrote(<<[t |-> "Ok"]>>)
                 /\ ag' = ProcessExit(ag)
    [] OTHER ->
         \* Stdin / StdinClose outside of an exec
         /\ child' = child
         /\ Respond(m, <<[t |-> "Ok"]>>)

\* session(), lines 62-63: what a recv error makes of the session.
SessionEnd(err) == IF err = "UnexpectedEof" THEN "ok" ELSE "err"

\* session(), lines 59-64: recv the next request; UnexpectedEof ends the
\* session with Ok, any other error with that error.
SessRecv ==
  /\ ag.pc = "recv"
  /\ LET p == PollRecv(<<>>, rbuf, HEof, "Request") IN
     /\ p.st # "pending"
     /\ rbuf' = p.rest
     /\ IF p.st = "err"
        THEN /\ ag' = [Ended(SessionEnd(p.err)) EXCEPT !.rerr = p.err,
                                                       !.rgot = p.got]
             /\ UNCHANGED <<a2h, child, aReqs, aLog>>
        ELSE Dispatch(p.m)
  /\ UNCHANGED <<script, hIdx, net, hostGone>>

InLoop == ag.pc = "exec" /\ ~LoopDone(ag.outDone, ag.errDone)

\* The handler of the running exec ends with an error (a failed send).
ExecFailed ==
  /\ aReqs' = [aReqs EXCEPT ![Len(aReqs)].fin = "err"]
  /\ ag' = Ended("err")
  /\ UNCHANGED <<a2h, aLog>>

\* A first branch that is enabled in every turn of the loop.
AlwaysPolled(a) == TRUE

\* The precondition of the first branch: `if child_stdin.is_some()` (line 169).
HostBranch(a) == a.stdin

\* select!, first branch (lines 169-184), enabled while child_stdin is Some:
\* the recv future is polled. It takes the bytes it can; when it completes its
\* arm runs: Stdin is written to the child's stdin (an error is ignored),
\* StdinClose drops the handle, Signal is forwarded, anything else (another
\* request or an error) is ignored.
ExecHostPoll ==
  /\ InLoop
  /\ HostBranch(ag)
  /\ LET p == PollRecv(ag.rx, rbuf, HEof, "Request") IN
     /\ rbuf' = p.rest
     /\ IF p.st = "pending"
        THEN /\ p.got # ag.rx
             /\ ag' = [ag EXCEPT !.rx = p.got]
             /\ child' = child
        ELSE IF p.st = "ok" /\ p.m.t = "Stdin"
        THEN /\ ag' = [ag EXCEPT !.rx = <<>>, !.eaten = @ + 1]
             /\ child' = IF child.st = "run"
                         THEN [child EXCEPT !.inp = BCat(@, p.m.data),
                                            !.fed = BCat(@, p.m.data)]
                         ELSE child
        ELSE IF p.st = "ok" /\ p.m.t = "StdinClose"
        THEN /\ ag' = [ag EXCEPT !.rx = <<>>, !.stdin = FALSE, !.eaten = @ + 1]
             /\ child' = child
        ELSE IF p.st = "ok" /\ p.m.t = "Signal"
        THEN /\ ag' = [ag EXCEPT !.rx = <<>>, !.eaten = @ + 1]
             /\ child' = Killed(child, p.m.pid, p.m.signal)
        ELSE /\ ag' = [ag EXCEPT !.rx = <<>>,
                                 !.eaten = @ + (IF p.st = "ok" THEN 1 ELSE 0)]
             /\ child' = child
  /\ UNCHANGED <<script, hIdx, net, hostGone, a2h, aReqs, aLog>>

\* Another branch of the select! completes: the recv future of the first branch
\* is dropped, and the bytes its read_exact calls had taken go with it (lost
\* counts them).
DropRecv == [ag EXCEPT !.rx = <<>>, !.lost = @ + BLen(ag.rx)]

\* select!, second branch (lines 185-192): a read of the child's stdout
\* returns. The select drops the recv future of the first branch, and with it
\* the bytes that future had taken from the reader.
ExecReadStdout ==
  /\ InLoop
  /\ ~ag.outDone
  /\ child.so # <<>> \/ child.st = "dead"
  /\ IF child.so # <<>>
     THEN /\ child' = [child EXCEPT !.so = BDrop(@, BUF_SIZE)]
          /\ IF hostGone
             THEN ExecFailed
             ELSE /\ aReqs' = aReqs
                  /\ Wrote(<<[t |-> "Stdout", data |-> BTake(child.so, BUF_SIZE)]>>)
                  /\ ag' = DropRecv
     ELSE /\ ag' = [DropRecv EXCEPT !.outDone = TRUE]
          /\ UNCHANGED <<child, a2h, aReqs, aLog>>
  /\ UNCHANGED <<script, hIdx, net, rbuf, hostGone>>

\* select!, third branch (lines 193-200): the same for stderr.
ExecReadStderr ==
  /\ InLoop
  /\ ~ag.errDone
  /\ child.se # <<>> \/ child.st = "dead"
  /\ IF child.se # <<>>
     THEN /\ child' = [child EXCEPT !.se = BDrop(@, BUF_SIZE)]
          /\ IF hostGone
             THEN ExecFailed
             ELSE /\ aReqs' = aReqs
                  /\ Wrote(<<[t |-> "Stderr", data |-> BTake(child.se, BUF_SIZE)]>>)
                  /\ ag' = DropRecv
     ELSE /\ ag' = [DropRecv EXCEPT !.errDone = TRUE]
          /\ UNCHANGED <<child, a2h, aReqs, aLog>>
  /\ UNCHANGED <<script, hIdx, net, rbuf, hostGone>>

\* A read of the child's stdout (out) or stderr returns an error: the stream
\* counts as done (lines 187, 195).
ExecReadError(out) ==
  /\ InLoop
  /\ IF out THEN ~ag.outDone ELSE ~ag.errDone
  /\ ag' = IF out THEN [DropRecv EXCEPT !.outDone = TRUE, !.readErr = TRUE]
            ELSE [DropRecv EXCEPT !.errDone = TRUE, !.readErr = TRUE]
  /\ UNCHANGED <<script, hIdx, net, rbuf, hostGone, a2h, child, aReqs, aLog>>

\* Lines 163-165 and 205: both streams are done; the loop ends and the stdin
\* handle is dropped.
ExecBreak ==
  /\ ag.pc = "exec"
  /\ LoopDone(ag.outDone, ag.errDone)
  /\ ag' = [ag EXCEPT !.pc = "wait", !.stdin = FALSE, !.rx = <<>>]
  /\ UNCHANGED <<script, hIdx, net, rbuf, hostGone, a2h, child, aReqs, aLog>>

\* Lines 207-208: wait for the child, send Exit.
ExecWait ==
  /\ ag.pc = "wait"
  /\ child.st = "dead"
  /\ IF hostGone
     THEN ExecFailed
     ELSE /\ aReqs' = [aReqs EXCEPT ![Len(aReqs)].fin = "ok"]
          /\ Wrote(<<[t |-> "Exit", code |-> ExitCode(child.code)]>>)
          /\ ag' = [ag EXCEPT !.pc = "recv"]
  /\ UNCHANGED <<script, hIdx, net, rbuf, hostGone, child>>

\* The child's stdin is at end of file: it was piped and the agent no longer
\* holds the handle.
StdinEof == child.piped /\ ~(ag.pc = "exec" /\ ag.stdin)

\* A step of the child process.
ChildStep ==
  /\ child.st = "run"
  /\ CASE child.kind = "echo" ->
            child' = IF child.step = 0
                     THEN [child EXCEPT !.so = BCat(@, Str_hi), !.step = 1]
                     ELSE [child EXCEPT !.st = "dead", !.code = Some(0)]
       [] child.kind = "warn" ->
            child' = IF child.step = 0
                     THEN [child EXCEPT !.se = BCat(@, Str_abc), !.step = 1]
                     ELSE [child EXCEPT !.st = "dead", !.code = Some(1)]
       [] OTHER ->
            /\ child.inp # <<>> \/ StdinEof
            /\ child' = IF child.inp # <<>>
                        THEN [child EXCEPT !.so = BCat(@, child.inp),
                                           !.inp = <<>>]
                        ELSE [child EXCEPT !.st = "dead", !.code = Some(0)]
  /\ UNCHANGED <<script, hIdx, net, rbuf, hostGone, a2h, ag, aReqs, aLog>>

\* The host writes the next frame of its script.
HostSend ==
  /\ ~hostGone
  /\ hIdx < Len(script)
  /\ net' = BCat(net, Frame(EncRequest(script[hIdx + 1])))
  /\ hIdx' = hIdx + 1
  /\ UNCHANGED <<script, rbuf, hostGone, a2h, ag, child, aReqs, aLog>>

\* The host writes the first k bytes of its next frame and is gone.
HostCut(k) ==
  /\ ~hostGone
  /\ hIdx < Len(script)
  /\ k < BLen(Frame(EncRequest(script[hIdx + 1])))
  /\ net' = BCat(net, BTake(Frame(EncRequest(script[hIdx + 1])), k))
  /\ hostGone' = TRUE
  /\ UNCHANGED <<script, hIdx, rbuf, a2h, ag, child, aReqs, aLog>>

\* The transport hands the agent's reader the next k bytes.
Deliver(k) ==
  /\ rbuf' = BCat(rbuf, BTake(net, k))
  /\ net' = BDrop(net, k)
  /\ UNCHANGED <<script, hIdx, hostGone, a2h, ag, child, aReqs, aLog>>

\* The host closes the connection.
HostClose ==
  /\ ~hostGone
  /\ hostGone' = TRUE
  /\ UNCHANGED <<script, hIdx, net, rbuf, a2h, ag, child, aReqs, aLog>>

\* The frame sequences a host without the Client writes.
Exec(cmd, si) == [t |-> "Exec", req |-> [ExecReqNew(cmd) EXCEPT !.stdin = si]]
StdinMsg(d) == [t |-> "Stdin", pid |-> CHILD_PID, data |-> d]
StdinCloseMsg == [t |-> "StdinClose", pid |-> CHILD_PID]
SignalMsg == [t |-> "Signal", pid |-> CHILD_PID, signal |-> SIGTERM]

HostScripts ==
  { <<Exec(Cmd_cat, TRUE), StdinMsg(Str_abc), StdinCloseMsg>>,
    <<Exec(Cmd_cat, TRUE), StdinMsg(Str_a), StdinMsg(Str_bc), StdinCloseMsg>>,
    <<Exec(Cmd_echo, FALSE), [t |-> "Ping"]>>,
    <<Exec(Cmd_warn, FALSE), Exec(Cmd_echo, TRUE)>>,
    <<Exec(Cmd_none, FALSE), [t |-> "Ping"]>>,
    <<Exec(Cmd_cat, TRUE), SignalMsg, [t |-> "Ping"]>>,
    <<[t |-> "ReadFile", path |-> Str_tmp],
      [t |-> "WriteFile", path |-> Str_tmp, data |-> Str_hi, mode |-> 420],
      [t |-> "Shutdown"]>>,
    <<[t |-> "CopyOut", path |-> Str_tmp],
      [t |-> "CopyIn", dest |-> Str_tmp, tar |-> Str_abc],
      StdinCloseMsg, SignalMsg>> }

AgentInit ==
  /\ script \in HostScripts
  /\ hIdx = 0
  /\ net = <<>>
  /\ rbuf = <<>>
  /\ hostGone = FALSE
  /\ a2h = <<>>
  /\ ag = AgentStart
  /\ child = NoChild
  /\ aReqs = <<>>
  /\ aLog = <<>>

\* The frames written for request number k, in order.
FramesOf(k) ==
  LET es == SelectSeq(aLog, LAMBDA e : e.rq = k)
  IN  [i \in 1..Len(es) |-> es[i].m]

\* The bytes of the frames of variant ty written for request k, concatenated.
DataOf(k, ty) ==
  LET fs == SelectSeq(FramesOf(k), LAMBDA f : f.t = ty)
  IN  BCatAll([i \in 1..Len(fs) |-> fs[i].data])

\* fs is Started{pid}, (Stdout|Stderr)*, Exit.
IsExecStream(fs) ==
  /\ Len(fs) >= 2
  /\ fs[1] = [t |-> "Started", pid |-> CHILD_PID]
  /\ fs[Len(fs)].t = "Exit"
  /\ \A i \in 2..(Len(fs) - 1) : fs[i].t \in {"Stdout", "Stderr"}

\* fs is the beginning of such a stream.
IsExecStreamPrefix(fs) ==
  \/ fs = <<>>
  \/ /\ fs[1] = [t |-> "Started", pid |-> CHILD_PID]
     /\ \A i \in 2..Len(fs) :
          \/ fs[i].t \in {"Stdout", "Stderr"}
          \/ i = Len(fs) /\ fs[i].t = "Exit"

\* C3. Exec framing: for every Exec whose child was spawned, the frames the
\* agent has written for it are at every moment the beginning of
\* Started{pid}, (Stdout|Stderr)*, Exit, nothing is written after Exit, and
\* when the handler has returned Ok they are the whole of it: one Started
\* first, one Exit last, only Stdout and Stderr between them.
C3_ExecFraming ==
  \A k \in 1..Len(aReqs) :
    (aReqs[k].m.t = "Exec" /\ aReqs[k].spawned) =>
      /\ IsExecStreamPrefix(FramesOf(k))
      /\ aReqs[k].fin = "ok" => IsExecStream(FramesOf(k))
      /\ aReqs[k].fin # "ok" =>
           \A i \in 1..Len(FramesOf(k)) : FramesOf(k)[i].t # "Exit"

\* An exec with output has completed, and a second exec after it.
C3_Witness ==
  /\ Len(aReqs) = 2
  /\ \A k \in 1..2 :
       /\ aReqs[k].m.t = "Exec" /\ aReqs[k].spawned /\ aReqs[k].fin = "ok"
       /\ Len(FramesOf(k)) = 3
  /\ FramesOf(1)[2].t = "Stderr"
  /\ FramesOf(2)[2].t = "Stdout"

\* The host runs /bin/cat with stdin: Exec{stdin: true}, Stdin frames, then
\* StdinClose.
IsStdinSession(scr) ==
  /\ Len(scr) >= 3
  /\ scr[1].t = "Exec" /\ scr[1].req.stdin /\ Program(scr[1].req.cmd) = "cat"
  /\ \A i \in 2..(Len(scr) - 1) : scr[i].t = "Stdin"
  /\ scr[Len(scr)].t = "StdinClose"

\* The bytes of the Stdin frames of such a session, in send order.
StdinData(scr) == BCatAll([i \in 1..(Len(scr) - 2) |-> scr[i + 1].data])

IsBPrefix(p, s) == BLen(p) <= BLen(s) /\ BTake(s, BLen(p)) = p

\* C6. Stdin passthrough: in a cat session the bytes written to the child's
\* stdin are at every moment a beginning of the Stdin bytes the host sends
\* (send order, nothing lost in the middle, nothing twice), and when the exec
\* has completed the child has been fed all of them, has written them to
\* stdout, and has exited 0.
C6_StdinPassthrough ==
  IsStdinSession(script) =>
    /\ IsBPrefix(child.fed, StdinData(script))
    /\ (aReqs # <<>> /\ aReqs[1].fin = "ok") =>
         /\ child.fed = StdinData(script)
         /\ DataOf(1, "Stdout") = StdinData(script)
         /\ FramesOf(1)[Len(FramesOf(1))] = [t |-> "Exit", code |-> 0]

\* The same, as long as no recv future of the select loop has been dropped
\* with bytes in it.
PassthroughSafe == ag.lost = 0 => C6_StdinPassthrough

\* ------------------------------------------- guest agent: more sessions
\* The sessions below add to the hosts above a host that is cut off in the
\* middle of a frame, a frame above MAX_FRAME, and requests sent after
\* Shutdown, during an exec without stdin and after StdinClose.

SessionScripts ==
  { <<[t |-> "Ping"], [t |-> "ReadFile", path |-> Str_tmp], SignalMsg>>,
    <<[t |-> "WriteFile", path |-> Str_tmp, data |-> Str_hi, mode |-> 420],
      [t |-> "CopyIn", dest |-> Str_tmp, tar |-> Str_abc],
      [t |-> "CopyOut", path |-> Str_tmp]>>,
    <<[t |-> "WriteFile", path |-> Str_tmp, data |-> Blob16M, mode |-> 420],
      [t |-> "Ping"]>>,
    <<Exec(Cmd_none, FALSE), [t |-> "Ping"]>>,
    <<Exec(Cmd_none, TRUE), Exec(Cmd_echo, FALSE)>>,
    <<[t |-> "Shutdown"], [t |-> "Ping"]>>,
    <<Exec(Cmd_echo, FALSE), SignalMsg, [t |-> "Ping"]>>,
    <<Exec(Cmd_cat, FALSE), SignalMsg>>,
    <<Exec(Cmd_cat, TRUE), StdinCloseMsg, SignalMsg>>,
    <<Exec(Cmd_cat, TRUE), StdinMsg(Str_a)>>,
    <<Exec(Cmd_warn, TRUE), SignalMsg>> }

\* An Exec with stdin that the host may abandon: /bin/cat fed one frame, and
\* /bin/echo followed by a Ping.
CancelScripts ==
  { <<Exec(Cmd_cat, TRUE), StdinMsg(Str_a)>>,
    <<Exec(Cmd_echo, TRUE), [t |-> "Ping"]>> }

CancelInit ==
  /\ script \in CancelScripts
  /\ hIdx = 0
  /\ net = <<>>
  /\ rbuf = <<>>
  /\ hostGone = FALSE
  /\ a2h = <<>>
  /\ ag = AgentStart
  /\ child = NoChild
  /\ aReqs = <<>>
  /\ aLog = <<>>

\* The sizes of the pieces in which the transport delivers: all that is in
\* flight, or a first piece that leaves fewer than 16 bytes behind.
Pieces == {k \in {1, 4, 16, BLen(net)} : k <= BLen(net) /\ k + 16 > BLen(net)}

SessionInit ==
  /\ script \in SessionScripts
  /\ hIdx = 0
  /\ net = <<>>
  /\ rbuf = <<>>
  /\ hostGone = FALSE
  /\ a2h = <<>>
  /\ ag = AgentStart
  /\ child = NoChild
  /\ aReqs = <<>>
  /\ aLog = <<>>

\* The bytes g of a recv stop before the end of the header, or before the
\* end of the payload its header announces.
Short(g) ==
  \/ BLen(g) < 4
  \/ /\ ~TooLong(LenOf(Hdr4(g)))
     /\ BLen(g) < 4 + LenOf(Hdr4(g))

\* C21. recv fails with UnexpectedEof when the stream ends before the whole
\* header or the whole announced payload has been read; a session whose recv
\* for the next request fails with UnexpectedEof ends with Ok, and with any
\* other recv error it ends with that error.
C21_RecvEof ==
  (ag.pc = "ended" /\ ag.rerr # "none") =>
    /\ Short(ag.rgot) => ag.rerr = "UnexpectedEof"
    /\ ag.rerr = "UnexpectedEof" => (HEof /\ rbuf = <<>> /\ Short(ag.rgot))
    /\ ag.rerr = "UnexpectedEof" => ag.res = "ok"
    /\ ag.rerr # "UnexpectedEof" => (ag.rerr = "InvalidData" /\ ag.res = "err")

\* A session has ended with Ok on a stream that stopped inside a payload.
C21_Witness ==
  /\ ag.pc = "ended" /\ ag.rerr = "UnexpectedEof" /\ ag.res = "ok"
  /\ BLen(ag.rgot) > 4

\* A session has ended with InvalidData from its recv.
SessionEndedInvalid ==
  ag.pc = "ended" /\ ag.rerr = "InvalidData" /\ ag.res = "err"

\* A session has ended with Ok on a stream that stopped inside a header.
SessionEndedInHeader ==
  /\ ag.pc = "ended" /\ ag.rerr = "UnexpectedEof" /\ ag.res = "ok"
  /\ BLen(ag.rgot) \in 1..3

\* Request k is an Exec whose spawn failed.
SpawnFailed(k) == aReqs[k].m.t = "Exec" /\ ~aReqs[k].spawned

\* C23. For an Exec whose spawn fails the agent writes one Error frame and
\* nothing else (no Started, Stdout, Stderr or Exit), starts no child, and
\* the session goes on: it ends only when a later recv or a later handler
\* ends it, and the request read next is dispatched.
C23_SpawnFailure ==
  \A k \in 1..Len(aReqs) :
    (SpawnFailed(k) /\ aReqs[k].fin = "ok") =>
      /\ Len(FramesOf(k)) = 1
      /\ FramesOf(k)[1].t = "Error"
      /\ (\A j \in 1..Len(aReqs) : ~aReqs[j].spawned) => child = NoChild
      /\ (k = Len(aReqs) /\ ag.pc # "recv") =>
           ag.pc = "ended" /\ ag.rerr # "none"
      /\ (k < Len(aReqs)) => aReqs[k + 1].n = aReqs[k].n + 1

\* A failed spawn was answered, and the Ping after it too.
C23_Witness ==
  /\ Len(aReqs) = 2 /\ SpawnFailed(1) /\ aReqs[1].fin = "ok"
  /\ aReqs[2].m.t = "Ping" /\ FramesOf(2) = <<[t |-> "Pong"]>>

\* The agent writes an Exit frame in this step.
WritesExit ==
  /\ Len(aLog') = Len(aLog) + 1
  /\ aLog'[Len(aLog')].m.t = "Exit"

\* C24. When the agent writes Exit, reads of the child's stdout and stderr
\* have both returned end of file or an error (with no read error, nothing the
\* child wrote is left unread), the agent no longer holds the child's stdin,
\* and the child has been waited for; the frame carries the child's exit code,
\* or -1 when it has none.
C24_ExitLast ==
  [][WritesExit =>
       /\ ag.outDone /\ ag.errDone
       /\ ~ag.readErr => (child.so = <<>> /\ child.se = <<>>)
       /\ ~ag.stdin
       /\ child.st = "dead"
       /\ aLog'[Len(aLog')].m.code =
            (IF child.code.some THEN child.code.v ELSE -1)]_agentVars

\* Exit(-1) has been written for a child that a signal ended, after the
\* child's stdin was still held when the loop ended.
C24_Witness ==
  /\ aLog # <<>> /\ aLog[Len(aLog)].m = [t |-> "Exit", code |-> -1]
  /\ script[1].req.stdin /\ \A i \in 2..Len(script) : script[i].t = "Signal"

\* Exit(1) has been written after the child's stderr output.
ExitAfterStderr ==
  /\ Len(aLog) = 3 /\ aLog[2].m.t = "Stderr"
  /\ aLog[3].m = [t |-> "Exit", code |-> 1]

\* Exit has been written after a failed read of the child's output.
ExitAfterReadError ==
  aLog # <<>> /\ aLog[Len(aLog)].m.t = "Exit" /\ ag.readErr

\* The response variants the handler of a request of type t may write.
Answers(t) ==
  CASE t = "Ping" -> {"Pong"}
    [] t = "Signal" -> {"Ok"}
    [] t = "ReadFile" -> {"FileData", "Error"}
    [] t \in {"WriteFile", "CopyIn"} -> {"Ok", "Error"}
    [] t = "CopyOut" -> {"TarData", "Error"}
    [] OTHER -> {}

SignalAnsweredOk ==
  /\ Len(aReqs) = 3 /\ aReqs[1].m.t = "Ping" /\ aReqs[3].m.t = "Signal"
  /\ FramesOf(1) = <<[t |-> "Pong"]>> /\ FramesOf(2)[1].t = "Error"
  /\ FramesOf(3) = <<[t |-> "Ok"]>> /\ child = NoChild

\* Request k is a Shutdown whose Ok was written.
ShutDown(k) == aReqs[k].m.t = "Shutdown" /\ aReqs[k].fin = "ok"

\* C26. The agent process exits only from a Shutdown whose Ok frame it has
\* written and flushed to the host (the frame is the last the agent wrote),
\* and a Shutdown answered with Ok is the last request the session
\* dispatches: the process has exited, and request frames the host writes
\* after it stay unread.
C26_Shutdown ==
  /\ ag.pc = "exited" =>
       /\ aReqs # <<>> /\ ShutDown(Len(aReqs))
       /\ aLog # <<>> /\ aLog[Len(aLog)] = [rq |-> Len(aReqs), m |-> [t |-> "Ok"]]
       /\ FramesOf(Len(aReqs)) = <<[t |-> "Ok"]>>
       /\ BLen(a2h) >= BLen(Frame(EncResponse([t |-> "Ok"])))
       /\ BDrop(a2h, BLen(a2h) - BLen(Frame(EncResponse([t |-> "Ok"]))))
            = Frame(EncResponse([t |-> "Ok"]))
  /\ \A k \in 1..Len(aReqs) :
       ShutDown(k) => (k = Len(aReqs) /\ ag.pc = "exited")

\* The agent has exited on Shutdown, and the Ping the host wrote after it has
\* reached the agent's socket and is not dispatched.
C26_Witness ==
  /\ ag.pc = "exited" /\ Len(aReqs) = 1
  /\ hIdx = 2 /\ script[2].t = "Ping" /\ net = <<>>
  /\ rbuf = Frame(EncRequest([t |-> "Ping"]))

\* An exec is running and the agent does not hold the child's stdin.
NoStdinHeld == ag.pc \in {"exec", "wait"} /\ ~ag.stdin

\* The step ends the running child by a signal.
SignalsChild == child.st = "run" /\ child'.st = "dead" /\ ~child'.code.some

\* C28. While an exec runs and the agent does not hold the child's stdin (an
\* Exec with stdin = false, or one with stdin = true after StdinClose), no
\* step of the agent takes bytes from the host stream, dispatches a request
\* or signals the child; and a Signal the session dispatches after a spawned
\* Exec is dispatched when that Exec's handler has returned, its Ok frame
\* following the Exit frame.
C28_NoReadWithoutStdin ==
  /\ [][NoStdinHeld =>
          /\ IsBPrefix(rbuf, rbuf')
          /\ ag'.rx = <<>> /\ ag'.eaten = ag.eaten /\ ag'.lost = ag.lost
          /\ Len(aReqs') = Len(aReqs)
          /\ ~SignalsChild]_agentVars
  /\ [](\A k \in 2..Len(aReqs) :
          (aReqs[k].m.t = "Signal" /\ aReqs[k - 1].spawned) =>
            /\ aReqs[k - 1].fin = "ok"
            /\ aReqs[k].fin = "ok" =>
                 \E i \in 1..(Len(aLog) - 1) :
                   /\ aLog[i].rq = k - 1 /\ aLog[i].m.t = "Exit"
                   /\ aLog[i + 1] = [rq |-> k, m |-> [t |-> "Ok"]])

\* The Signal sent during an exec without stdin has waited unread in the
\* agent's socket, and was answered after Exit as the session's next request.
C28_Witness ==
  /\ Len(aReqs) >= 2 /\ aReqs[1].m.t = "Exec" /\ ~aReqs[1].m.req.stdin
  /\ aReqs[1].spawned
  /\ aReqs[2].m.t = "Signal" /\ aReqs[2].n = 2 /\ aReqs[2].fin = "ok"
  /\ aLog[Len(aLog)] = [rq |-> 2, m |-> [t |-> "Ok"]]

\* An exec without stdin is running and the Signal is in the agent's socket.
SignalWaits ==
  /\ NoStdinHeld /\ aReqs[1].m.t = "Exec" /\ ~aReqs[1].m.req.stdin
  /\ rbuf = Frame(EncRequest(SignalMsg)) /\ child.st = "run"

\* The same after StdinClose.
SignalWaitsAfterStdinClose ==
  /\ NoStdinHeld /\ aReqs[1].m.t = "Exec" /\ aReqs[1].m.req.stdin
  /\ ag.eaten = 1
  /\ rbuf = Frame(EncRequest(SignalMsg)) /\ child.st = "run"

\* The host has closed the connection and everything it wrote has been
\* read; the select loop of an Exec with stdin = true holds the child's
\* stdin, and the child (/bin/cat) waits for input and has written nothing
\* that is unread.
BlockedOnClosed ==
  /\ HEof /\ rbuf = <<>>
  /\ InLoop /\ ag.stdin /\ ag.rx = <<>>
  /\ child.st = "run" /\ child.kind = "cat" /\ child.inp = <<>>
  /\ child.so = <<>> /\ child.se = <<>>

\* C29. When the host has closed the connection while the select loop of an
\* Exec with stdin = true runs and the child is blocked reading its stdin,
\* the loop eventually ends (the child's stdin is closed and the child
\* exits, or the handler returns).
C29_CancelByClose == BlockedOnClosed ~> ~InLoop

\* In that state the recv of the first branch fails at once, and no step
\* other than a failing read of the child's pipes changes anything: the loop
\* turns on the closed stream without end.
SpinsOnClosedStream ==
  [][BlockedOnClosed =>
       /\ PollRecv(<<>>, rbuf, HEof, "Request").st = "err"
       /\ \E out \in BOOLEAN : ExecReadError(out)]_agentVars

\* The loop has been reached by a host that closed after its Stdin frame.
ClosedAfterStdin ==
  BlockedOnClosed /\ ag.eaten = 1 /\ child.fed = Str_a /\ ~ag.readErr

\* A host that feeds a child which does not read its stdin: /bin/echo run
\* with stdin, a Stdin frame, StdinClose, and then Ping.
RaceScripts ==
  { <<Exec(Cmd_echo, TRUE), StdinMsg(Str_a), StdinCloseMsg, [t |-> "Ping"]>> }

RaceInit ==
  /\ script \in RaceScripts
  /\ hIdx = 0
  /\ net = <<>>
  /\ rbuf = <<>>
  /\ hostGone = FALSE
  /\ a2h = <<>>
  /\ ag = AgentStart
  /\ child = NoChild
  /\ aReqs = <<>>
  /\ aLog = <<>>

IsStdinFrame(m) == m.t \in {"Stdin", "StdinClose"}

\* C31. The agent writes no response frame for a Stdin or StdinClose frame
\* the host has sent for an exec; the frame that follows an exec's Exit is
\* the response to a request that is not one of them.
C31_Alignment ==
  /\ \A k \in 1..Len(aReqs) :
       IsStdinFrame(aReqs[k].m) => FramesOf(k) = <<>>
  /\ \A i \in 1..(Len(aLog) - 1) :
       aLog[i].m.t = "Exit" => ~IsStdinFrame(aReqs[aLog[i + 1].rq].m)

\* The child has finished before the agent consumed the Stdin frame, and
\* the frame written after Exit is the Ok for that Stdin frame; the Ping
\* the host has sent is still unanswered.
OkAfterExit ==
  /\ hIdx = Len(script) /\ script[Len(script)].t = "Ping"
  /\ \E i \in 1..(Len(aLog) - 1) :
       /\ aLog[i].m.t = "Exit"
       /\ aLog[i + 1].m = [t |-> "Ok"]
       /\ IsStdinFrame(aReqs[aLog[i + 1].rq].m)
       /\ Len(aLog) = i + 1

\* When the agent has consumed the Stdin and StdinClose frames inside the
\* exec, the frame after Exit is the Pong.
PongAfterExit ==
  /\ ag.eaten = Len(script) - 2 /\ ag.lost = 0
  /\ Len(aReqs) = 2 /\ aReqs[2].m.t = "Ping"
  /\ aLog[Len(aLog)].m = [t |-> "Pong"] /\ aLog[Len(aLog) - 1].m.t = "Exit"

\* ------------------------------------------------------ host client (bux)
\* One Client shared by several callers. Each call locks the stream mutex,
\* writes its request and reads responses until the arm that returns; the
\* guard is dropped when the call returns. The peer is the guest agent above
\* (the client writes into net and reads a2h), or a peer that writes response
\* frames of its own choosing.

VARIABLES
  lock,      \* the caller holding the stream mutex, 0 when it is free
  calls,     \* for each caller, the call it makes and how far it has got
  nSent,     \* the number of request frames the client has written
  nRead,     \* the number of response frames the client has read
  peerN,     \* the number of frames the free peer has written
  peerShut   \* the free peer has closed the connection

clientVars == <<lock, calls, nSent, nRead, peerN, peerShut>>

Callers == {1, 2}

\* io::Result values.
Ok(v) == [ok |-> TRUE, v |-> v]
Err(kind, msg) == [ok |-> FALSE, err |-> kind, msg |-> msg]

\* A caller: pc is "idle", "locked" (holds the mutex), "sent" (request
\* written, reading responses) or "done"; rq numbers its request among those
\* written; events are the on_event invocations; stdout and stderr are the
\* buffers of exec's closure; sres is what exec_stream (or the send_expect or
\* read_file body) returned, res what the call returned; alien says it has
\* read a frame the agent wrote for another request; got are the response
\* frames its recv calls have returned.
NoCall ==
  [pc |-> "idle", op |-> [f |-> "none"], rq |-> 0, events |-> <<>>,
   stdout |-> <<>>, stderr |-> <<>>, sres |-> None, res |-> None,
   alien |-> FALSE, got |-> <<>>]

WithStdin(req) == [req EXCEPT !.stdin = TRUE]

\* The calls a caller may make.
ClientOps ==
  { [f |-> "ping"],
    [f |-> "shutdown"],
    [f |-> "signal", pid |-> CHILD_PID, signal |-> SIGTERM],
    [f |-> "read_file", path |-> Str_tmp],
    [f |-> "write_file", path |-> Str_tmp, data |-> Str_hi, mode |-> 420],
    [f |-> "exec_stream", req |-> ExecReqNew(Cmd_echo)],
    [f |-> "exec_stream", req |-> WithStdin(ExecReqNew(Cmd_echo))],
    [f |-> "exec_stream", req |-> ExecReqNew(Cmd_none)],
    [f |-> "exec", req |-> ExecReqNew(Cmd_echo)],
    [f |-> "exec", req |-> ExecReqNew(Cmd_warn)] }

IsExecOpName(f) == f \in {"exec_stream", "exec"}

\* One call of each method, for the peer whose frames do not depend on the
\* request.
StreamOps ==
  { op \in ClientOps :
      IsExecOpName(op.f) => op.req = ExecReqNew(Cmd_echo) }

\* The exec calls.
ExecOps == {op \in ClientOps : IsExecOpName(op.f)}

IsExecOp(op) == IsExecOpName(op.f)

\* The request each method sends.
RequestOf(op) ==
  CASE op.f = "ping" -> [t |-> "Ping"]
    [] op.f = "shutdown" -> [t |-> "Shutdown"]
    [] op.f = "signal" -> [t |-> "Signal", pid |-> op.pid, signal |-> op.signal]
    [] op.f = "read_file" -> [t |-> "ReadFile", path |-> op.path]
    [] op.f = "write_file" ->
         [t |-> "WriteFile", path |-> op.path, data |-> op.data,
          mode |-> op.mode]
    [] OTHER -> [t |-> "Exec", req |-> op.req]

Unexpected == Err("InvalidData", "unexpected response")

\* Methods that all accept Ok.
OkForAll(op) == "Ok"

\* The `ok` predicate each method passes to send_expect.
Expected(op) == IF op.f = "ping" THEN "Pong" ELSE "Ok"

\* send_expect, lines 159-168.
SendExpectEnd(op, m) ==
  IF m.t = Expected(op) THEN Ok("unit")
  ELSE IF m.t = "Error" THEN Err("Other", m.msg)
  ELSE Unexpected

\* read_file, lines 127-134.
ReadFileEnd(m) ==
  IF m.t = "FileData" THEN Ok(m.data)
  ELSE IF m.t = "Error" THEN Err("Other", m.msg)
  ELSE Unexpected

\* exec_stream, lines 86-95: the arms that return.
ExecStreamEnd(m) ==
  IF m.t = "Exit" THEN Ok(m.code)
  ELSE IF m.t = "Error" THEN Err("Other", m.msg)
  ELSE Unexpected

\* Vec::extend of exec's closure (lines 106-107).
Replaced(buf, d) == d
Extend(buf, d) == BCat(buf, d)

\* exec_stream, lines 84-85: on(event). The closure of exec extends its
\* buffers; events records the invocation for either method.
OnEvent(call, m) ==
  [call EXCEPT
     !.events = Append(@, m),
     !.stdout = IF call.op.f = "exec" /\ m.t = "Stdout"
                THEN Extend(@, m.data) ELSE @,
     !.stderr = IF call.op.f = "exec" /\ m.t = "Stderr"
                THEN Extend(@, m.data) ELSE @]

\* exec, lines 104-114: `?` on exec_stream's result, then ExecOutput.
ExecEnd(call, sres) ==
  IF sres.ok
  THEN Ok([stdout |-> call.stdout, stderr |-> call.stderr, code |-> sres.v])
  ELSE sres

\* The call returns; sres is the result of the body that held the lock.
Finish(call, sres) ==
  [call EXCEPT !.pc = "done", !.sres = Some(sres),
               !.res = Some(IF call.op.f = "exec" THEN ExecEnd(call, sres)
                            ELSE sres)]

\* What a call does with a response frame it has read.
Handle(call, m) ==
  IF IsExecOp(call.op)
  THEN IF m.t \in {"Stdout", "Stderr"} THEN OnEvent(call, m)
       ELSE Finish(call, ExecStreamEnd(m))
  ELSE IF call.op.f = "read_file" THEN Finish(call, ReadFileEnd(m))
  ELSE Finish(call, SendExpectEnd(call.op, m))

\* The other end of the connection is closed.
PeerClosed == peerShut \/ ag.pc \in {"ended", "exited"}

\* self.stream.lock().await
CallStart(c, op) ==
  /\ calls[c].pc = "idle"
  /\ lock = 0
  /\ lock' = c
  /\ calls' = [calls EXCEPT ![c] = [NoCall EXCEPT !.pc = "locked", !.op = op]]
  /\ UNCHANGED <<nSent, nRead, peerN, peerShut, net, a2h>>

\* bux_proto::send(&mut *stream, &request).await? : the write fails when the
\* peer has closed.
CallSend(c) ==
  /\ calls[c].pc = "locked"
  /\ IF PeerClosed
     THEN /\ calls' = [calls EXCEPT
                         ![c] = Finish(@, Err("BrokenPipe", "send"))]
          /\ lock' = 0
          /\ UNCHANGED <<nSent, net>>
     ELSE /\ net' = BCat(net, Frame(EncRequest(RequestOf(calls[c].op))))
          /\ nSent' = nSent + 1
          /\ calls' = [calls EXCEPT ![c].pc = "sent", ![c].rq = nSent + 1]
          /\ lock' = lock
  /\ UNCHANGED <<nRead, peerN, peerShut, a2h>>

\* The frame the client reads next was written by the agent for a request
\* other than number rq.
Alien(rq) ==
  /\ nRead + 1 <= Len(aLog)
  /\ aReqs[aLog[nRead + 1].rq].n # rq

\* The call after its recv has returned p.
AfterRecv(call, p) ==
  IF p.st = "err" THEN Finish(call, Err(p.err, p.why))
  ELSE Handle([call EXCEPT !.alien = @ \/ Alien(call.rq),
                           !.got = Append(@, p.m)], p.m)

\* bux_proto::recv::<Response>(&mut *stream).await? and the match on it; the
\* MutexGuard is dropped when the call returns.
CallRecvGot(c, p) ==
  /\ p.st # "pending"
  /\ a2h' = p.rest
  /\ nRead' = nRead + (IF p.st = "ok" THEN 1 ELSE 0)
  /\ calls' = [calls EXCEPT ![c] = AfterRecv(@, p)]
  /\ lock' = IF p.st = "err" \/ AfterRecv(calls[c], p).pc = "done"
             THEN 0 ELSE lock

CallRecv(c) ==
  /\ calls[c].pc = "sent"
  /\ CallRecvGot(c, PollRecv(<<>>, a2h, PeerClosed, "Response"))
  /\ UNCHANGED <<nSent, peerN, peerShut, net>>

\* The free peer: it writes up to MaxFrames response frames while a call is
\* waiting for one, and may close the connection.
MaxFrames == 3

PeerFrames ==
  { [t |-> "Started", pid |-> CHILD_PID],
    [t |-> "Stdout", data |-> Str_hi],
    [t |-> "Stdout", data |-> Str_a],
    [t |-> "Stderr", data |-> Str_abc],
    [t |-> "Exit", code |-> -1],
    [t |-> "Error", msg |-> Str_abc],
    [t |-> "Pong"],
    [t |-> "Ok"],
    [t |-> "FileData", data |-> Str_hi] }

PeerSend(m) ==
  /\ ~peerShut
  /\ peerN < MaxFrames
  /\ \E c \in Callers : calls[c].pc = "sent"
  /\ a2h' = BCat(a2h, Frame(EncResponse(m)))
  /\ peerN' = peerN + 1
  /\ UNCHANGED <<lock, calls, nSent, nRead, peerShut, net>>

PeerShutdown ==
  /\ ~peerShut
  /\ peerShut' = TRUE
  /\ UNCHANGED <<lock, calls, nSent, nRead, peerN, net, a2h>>

ClientInit ==
  /\ lock = 0
  /\ calls = [c \in Callers |-> NoCall]
  /\ nSent = 0
  /\ nRead = 0
  /\ peerN = 0
  /\ peerShut = FALSE

\* The number, in aReqs, of the request with wire number rq (0 when the
\* session has not dispatched it).
Dispatched(rq) ==
  IF \E k \in 1..Len(aReqs) : aReqs[k].n = rq
  THEN CHOOSE k \in 1..Len(aReqs) : aReqs[k].n = rq
  ELSE 0

\* C4. exec_stream against the agent: a call of exec_stream whose Exec the
\* agent has spawned returns Ok(code) with the code of the agent's Exit frame,
\* having invoked on_event once for each Stdout/Stderr frame the agent wrote for
\* it, in order.
C4_ExecStreamOk ==
  \A c \in Callers :
    (/\ calls[c].pc = "done"
     /\ calls[c].op.f = "exec_stream"
     /\ Dispatched(calls[c].rq) # 0
     /\ aReqs[Dispatched(calls[c].rq)].spawned) =>
      LET fs == FramesOf(Dispatched(calls[c].rq)) IN
      /\ calls[c].sres.v.ok
      /\ IsExecStream(fs)
      /\ calls[c].sres.v.v = fs[Len(fs)].code
      /\ calls[c].events = SubSeq(fs, 2, Len(fs) - 1)

\* What the code does instead: the Started frame falls into the `_` arm.
ExecStreamStopsAtStarted ==
  \A c \in Callers :
    (/\ calls[c].pc = "done"
     /\ IsExecOp(calls[c].op)
     /\ calls[c].rq = 1
     /\ Dispatched(1) # 0
     /\ aReqs[Dispatched(1)].spawned) =>
      /\ calls[c].res.v = Unexpected
      /\ calls[c].events = <<>>

\* Nothing of a call is on the wire or being handled.
WireQuiet ==
  /\ net = <<>>
  /\ rbuf = <<>>
  /\ a2h = <<>>
  /\ ag.rx = <<>>
  /\ ag.pc \in {"recv", "ended", "exited"}

\* C7. Client serialization: whenever the mutex is free, every call made so
\* far has had all of its response frames read (nothing is in flight and the
\* agent is handling no request), so a request is only ever written on a quiet
\* wire; and no call reads a frame written for another call's request.
C7_Serialized ==
  /\ lock = 0 => WireQuiet
  /\ \A c \in Callers : ~calls[c].alien

\* The same for callers that do not use exec_stream or exec.
SerializedWithoutExec ==
  (\A c \in Callers : ~IsExecOp(calls[c].op)) => C7_Serialized

\* C5. exec is the buffered form of exec_stream: it fails iff exec_stream
\* fails, with the same error; when exec_stream returns Ok(code) it returns
\* ExecOutput with that code and with stdout (stderr) the concatenation, in
\* order, of the Stdout (Stderr) chunks exec_stream passed to on_event.
EventData(evs, ty) ==
  LET es == SelectSeq(evs, LAMBDA e : e.t = ty)
  IN  BCatAll([i \in 1..Len(es) |-> es[i].data])

C5_ExecBuffered ==
  \A c \in Callers :
    (calls[c].pc = "done" /\ calls[c].op.f = "exec") =>
      LET s == calls[c].sres.v
          r == calls[c].res.v
      IN  /\ r.ok <=> s.ok
          /\ ~s.ok => r = s
          /\ s.ok => r.v = [stdout |-> EventData(calls[c].events, "Stdout"),
                            stderr |-> EventData(calls[c].events, "Stderr"),
                            code |-> s.v]

\* An exec has returned Ok after two Stdout chunks, and one after a Stderr
\* chunk is possible too.
C5_Witness ==
  \E c \in Callers :
    /\ calls[c].pc = "done" /\ calls[c].op.f = "exec"
    /\ calls[c].res.v.ok
    /\ Len(calls[c].events) = 2
    /\ calls[c].events[1] # calls[c].events[2]
    /\ calls[c].events[1].t = "Stdout" /\ calls[c].events[2].t = "Stdout"

\* The response variant on which each method succeeds.
Accepts(f) ==
  CASE f = "ping" -> "Pong"
    [] f \in {"shutdown", "signal", "write_file"} -> "Ok"
    [] f = "read_file" -> "FileData"
    [] OTHER -> "none"

\* C30. A finished ping, shutdown, signal, write_file or read_file has read
\* at most one response frame, and none only when its send or its recv
\* failed; it returned Ok exactly when that frame was the variant the method
\* accepts (read_file returning the frame's data), an I/O error of kind Other
\* carrying msg when the frame was Error(msg), and InvalidData for every
\* other variant.
C30_ResponseChecking ==
  \A c \in Callers :
    (calls[c].pc = "done" /\ Accepts(calls[c].op.f) # "none") =>
      LET g == calls[c].got
          r == calls[c].res.v
      IN  /\ Len(g) <= 1
          /\ Len(g) = 0 => ~r.ok /\ r # Unexpected /\ r.err # "Other"
          /\ Len(g) = 1 =>
               IF g[1].t = Accepts(calls[c].op.f)
               THEN r = Ok(IF g[1].t = "FileData" THEN g[1].data ELSE "unit")
               ELSE IF g[1].t = "Error"
               THEN ~r.ok /\ r.err = "Other" /\ r.msg = g[1].msg
               ELSE ~r.ok /\ r.err = "InvalidData"
                           /\ r.msg = "unexpected response"

\* A ping has failed with the message of the Error frame it read, and the
\* frames the peer wrote after that one are unread.
C30_Witness ==
  /\ calls[1].pc = "done" /\ calls[1].op.f = "ping"
  /\ calls[1].got = <<[t |-> "Error", msg |-> Str_abc]>>
  /\ calls[1].res.v = Err("Other", Str_abc)
  /\ peerN = 3 /\ nRead = 1 /\ a2h # <<>>

\* A shutdown has failed with InvalidData on Pong; a read_file has returned
\* the data of FileData.
ShutdownRejectsPong ==
  /\ calls[1].pc = "done" /\ calls[1].op.f = "shutdown"
  /\ calls[1].got = <<[t |-> "Pong"]>> /\ calls[1].res.v = Unexpected

ReadFileReturnsData ==
  /\ calls[1].pc = "done" /\ calls[1].op.f = "read_file"
  /\ calls[1].res.v = Ok(Str_hi)

\* --------------------------------------- a second connection to the agent
\* run() spawns one session per connection (lines 43-50); all of them are
\* tasks of the one agent process. On the second connection the host sends
\* Shutdown; its session answers Ok and calls std::process::exit(0), which
\* ends the process and, with it, the session of the first connection at
\* whatever point it has reached.
VARIABLES
  sPc,     \* the second connection: "none", "sent" (Shutdown written), "exited"
  sOut     \* the frames the agent has written to it

shutVars == <<sPc, sOut>>

ShutInit == sPc = "none" /\ sOut = <<>>

\* The host writes Shutdown on the second connection.
OtherSend ==
  /\ sPc = "none"
  /\ ag.pc # "exited"
  /\ sPc' = "sent"
  /\ UNCHANGED <<sOut, agentVars, clientVars>>

\* The session of the second connection dispatches Shutdown (lines 79-83):
\* Ok is written and the process exits. Of the bytes the agent has written
\* to the first connection and the host has not read, the first keep reach
\* the host; the connection is closed after them.
OtherShutdown(keep) ==
  /\ sPc = "sent"
  /\ ag.pc # "exited"
  /\ keep <= BLen(a2h)
  /\ sPc' = "exited"
  /\ sOut' = <<[t |-> "Ok"]>>
  /\ ag' = ProcessExit(ag)
  /\ a2h' = BTake(a2h, keep)
  /\ UNCHANGED <<script, hIdx, net, rbuf, hostGone, child, aReqs, aLog,
                 clientVars>>

\* The agent has sent the Exit frame of the request with wire number rq,
\* carrying code.
ExitSent(rq, code) ==
  \E i \in 1..Len(aLog) :
    /\ aLog[i].m = [t |-> "Exit", code |-> code]
    /\ aReqs[aLog[i].rq].n = rq

\* The request with wire number rq was being handled, or had not been
\* dispatched, when the process exited.
InFlight(rq) ==
  \/ Dispatched(rq) = 0
  \/ aReqs[Dispatched(rq)].fin = "run"

\* C27. When a Shutdown has been processed on a second connection, at any
\* moment of the execs on the first one, a finished exec_stream (or exec)
\* has returned Ok(code) only when the agent has sent the Exit frame of its
\* Exec with that code, and an I/O error otherwise; and the recv of a call
\* that is waiting for a frame returns at once (with a frame that is left,
\* or with an error), so that the call does not block forever.
C27_ShutdownDuringExec ==
  \A c \in Callers :
    /\ (sPc = "exited" /\ calls[c].pc = "done" /\ IsExecOp(calls[c].op)) =>
         LET r == calls[c].sres.v IN
         /\ r.ok => ExitSent(calls[c].rq, r.v)
         /\ ~r.ok =>
              r.err \in {"BrokenPipe", "UnexpectedEof", "InvalidData", "Other"}
    /\ (calls[c].pc = "sent" /\ ag.pc = "exited") =>
         PollRecv(<<>>, a2h, PeerClosed, "Response").st # "pending"

\* The same for a Client that makes one call.
SettledFirstCall ==
  (\A c \in Callers : calls[c].rq <= 1) => C27_ShutdownDuringExec

\* An exec_stream or exec has returned Ok with an exit code, and the process
\* has exited on the Shutdown without having sent an Exit frame for that
\* call's Exec, which was in flight.
ExitCodeWithoutExit ==
  \E c \in Callers :
    /\ sPc = "exited" /\ ag.pc = "exited"
    /\ calls[c].pc = "done" /\ IsExecOp(calls[c].op)
    /\ calls[c].sres.v.ok
    /\ InFlight(calls[c].rq)
    /\ \A code \in {-1, 0, 1} : ~ExitSent(calls[c].rq, code)

\* The process has exited on the Shutdown while the child of the exec was
\* running and no Exit had been sent, and exec_stream has returned an error.
ErrorAfterShutdown ==
  /\ sPc = "exited" /\ ag.pc = "exited"
  /\ aReqs # <<>> /\ aReqs[1].spawned /\ aReqs[1].fin = "run"
  /\ calls[1].pc = "done" /\ calls[1].op.f = "exec_stream"
  /\ ~calls[1].sres.v.ok /\ calls[1].sres.v.err = "UnexpectedEof"

\* ------------------------------------------------- OCI image store (bux-oci)
\* The store of one Oci value: the SQLite index (images, image_layers and
\* layers rows) and the files under its root (layer blobs, config blobs and
\* rootfs directories, each with its staging name). Operations run one at a
\* time; pull is a sequence of steps, remove_image and the cached path of
\* ensure are one step each.

VARIABLES
  sImages,     \* images rows: reference -> manifest digest, or "none"
  sImgLayers,  \* image_layers rows: <<image_ref, layer_digest>>
  sLayers,     \* layers rows: digest -> ref_count
  sBlobs,      \* layers/<digest>.tar.gz files
  sTmpBlobs,   \* layers/<digest>.tar.gz.tmp files
  sConfigs,    \* configs/<digest>.json files
  sRootfs,     \* rootfs/<digest>/ directories
  sTmpRootfs,  \* rootfs/<digest>.tmp/ directories
  sPart,       \* the files and directories whose content is incomplete
  sOp,         \* the pull in progress
  sLast,       \* the outcome of the last operation that returned
  nOps,        \* the number of operations that have returned
  sClean,      \* every operation so far returned Ok
  sFresh       \* the references pulled successfully since the last remove

sDb == <<sImages, sImgLayers, sLayers>>
sDisk == <<sBlobs, sTmpBlobs, sConfigs, sRootfs, sTmpRootfs, sPart>>
storeVars == <<sDb, sDisk, sOp, sLast, nOps, sClean, sFresh>>

MaxOps == 4

Refs == {"a", "b"}

\* The registry: the manifests a reference may resolve to (a tag can move, and
\* two references can name the same manifest), and the layers of each. Layer
\* "L" is shared by all of them.
Serves(r) == IF r = "a" THEN {"m1", "m3"} ELSE {"m2", "m1"}

ManifestLayers(m) ==
  CASE m = "m1" -> <<"L", "LA">>
    [] m = "m2" -> <<"L", "LB">>
    [] OTHER -> <<"L", "LC">>

LayerSet(m) == {ManifestLayers(m)[i] : i \in 1..Len(ManifestLayers(m))}

IdleOp == [pc |-> "idle"]

\* File names: layer_path, layer_staging_path, rootfs_path and
\* rootfs_staging_path of a digest.
LayerPath(d) == <<"layers", d>>
DirectPath(d) == <<"layers", d>>
LayerStagingPath(d) == <<"layers.tmp", d>>
RootfsPath(m) == <<"rootfs", m>>
RootfsStagingPath(m) == <<"rootfs.tmp", m>>

\* fs::rename(from, to): the content moves with the name.
Renamed(part, from, to) ==
  (part \ {from, to}) \cup (IF from \in part THEN {to} ELSE {})

NoState == [none |-> TRUE]

\* What the index and the final names on disk hold (recorded when an
\* operation begins in a store where every operation so far returned Ok).
StoreState ==
  [images |-> sImages, rows |-> sImgLayers, layers |-> sLayers,
   blobs |-> sBlobs, rootfs |-> sRootfs]

\* The outcome of an operation. calls counts its registry calls, dir is the
\* rootfs digest it returned; fresh and clean are sFresh (for its reference)
\* and sClean when it began; for a remove, had says the images row existed,
\* shared / own are its layers that other images reference / do not, swept
\* the layers its sweep found with ref_count <= 0; man is the manifest a pull
\* resolved; for an interrupted operation, at is the step it had reached and
\* pre the store when it began; for a pull that re-runs an interrupted pull,
\* pre is the store when the interrupted one began.
Outcome(op, r, ok, err, ncalls, dir, fresh) ==
  [op |-> op, ref |-> r, ok |-> ok, err |-> err, calls |-> ncalls, dir |-> dir,
   fresh |-> fresh, clean |-> sClean, had |-> FALSE, shared |-> {},
   own |-> {}, swept |-> {}, man |-> "none", at |-> "none",
   pre |-> NoState]

NoOutcome == [op |-> "none", ok |-> TRUE, clean |-> TRUE, fresh |-> FALSE,
              had |-> FALSE, ref |-> "none", man |-> "none", at |-> "none",
              pre |-> NoState]

\* An operation returns res.
Done(res) ==
  /\ sOp' = IdleOp
  /\ sLast' = res
  /\ nOps' = nOps + 1
  /\ sClean' = (sClean /\ res.ok)

\* The pull in progress fails with err.
PullFails(err) ==
  /\ Done([Outcome(sOp.by, sOp.ref, FALSE, err, sOp.calls, "none",
                   sOp.fresh)
             EXCEPT !.man = sOp.man, !.at = sOp.after, !.pre = sOp.rerun])
  /\ sFresh' = sFresh

CanStart == sOp.pc = "idle" /\ nOps < MaxOps

\* The operation that last ended was a pull of r, resolving m, that was
\* interrupted, and every operation before it had returned Ok.
Reruns(r, m) ==
  /\ sLast.op = "crash" /\ sLast.at \notin {"remove.tx", "remove.committed"}
  /\ sLast.ref = r /\ sLast.man = m
  /\ sLast.clean

\* pull, lines 193-198: pull_manifest_and_config; the registry may fail.
PullBegin(r, by) ==
  /\ UNCHANGED <<sDb, sDisk, sFresh>>
  /\ \/ Done(Outcome(by, r, FALSE, "Registry", 1, "none", r \in sFresh))
     \/ /\ \E m \in Serves(r) :
             sOp' = [pc |-> "layer", by |-> by, ref |-> r, man |-> m, i |-> 1,
                     calls |-> 1, fresh |-> r \in sFresh,
                     pre |-> IF sClean THEN StoreState ELSE NoState,
                     after |-> IF Reruns(r, m) THEN sLast.at ELSE "none",
                     rerun |-> IF Reruns(r, m) THEN sLast.pre ELSE NoState]
        /\ UNCHANGED <<sLast, nOps, sClean>>

PullStart(r) == CanStart /\ PullBegin(r, "pull")

\* The layer the loop of pull is at.
CurLayer == ManifestLayers(sOp.man)[sOp.i]

InLayers == sOp.pc = "layer" /\ sOp.i <= Len(ManifestLayers(sOp.man))

\* Store::has_layer (the blob file exists).
HasLayer(d) == d \in sBlobs

\* pull, lines 207-208: the layer is cached; commit_layer is not called.
PullLayerCached ==
  /\ InLayers
  /\ HasLayer(CurLayer)
  /\ sOp' = [sOp EXCEPT !.i = @ + 1]
  /\ UNCHANGED <<sDb, sDisk, sLast, nOps, sClean, sFresh>>

\* pull, lines 215-216: File::create(staging) makes an empty staging file.
PullCreate ==
  /\ InLayers
  /\ ~HasLayer(CurLayer)
  /\ sTmpBlobs' = sTmpBlobs \cup {CurLayer}
  /\ sPart' = sPart \cup {LayerStagingPath(CurLayer)}
  /\ sOp' = [sOp EXCEPT !.pc = "download"]
  /\ UNCHANGED <<sDb, sBlobs, sConfigs, sRootfs, sTmpRootfs, sLast, nOps,
                 sClean, sFresh>>

\* pull, lines 217-220: pull_blob streams the blob into the staging file; it
\* returns Ok when the whole blob is written, or fails part-way.
PullDownload ==
  /\ sOp.pc = "download"
  /\ UNCHANGED <<sDb, sBlobs, sTmpBlobs, sConfigs, sRootfs, sTmpRootfs>>
  /\ \/ /\ sPart' = sPart \ {LayerStagingPath(CurLayer)}
        /\ sOp' = [sOp EXCEPT !.pc = "rename", !.calls = @ + 1]
        /\ UNCHANGED <<sLast, nOps, sClean, sFresh>>
     \/ /\ sPart' = sPart
        /\ PullFails("Registry")

\* commit_layer, lines 132-134: rename staging -> final.
PullCommitRename ==
  /\ sOp.pc = "rename"
  /\ sTmpBlobs' = sTmpBlobs \ {CurLayer}
  /\ sBlobs' = sBlobs \cup {CurLayer}
  /\ sPart' = Renamed(sPart, LayerStagingPath(CurLayer), LayerPath(CurLayer))
  /\ sOp' = [sOp EXCEPT !.pc = "row"]
  /\ UNCHANGED <<sDb, sConfigs, sRootfs, sTmpRootfs, sLast, nOps, sClean,
                 sFresh>>

\* commit_layer, lines 136-143: INSERT INTO layers ... ON CONFLICT(digest) DO
\* UPDATE SET ref_count = ref_count + 1 (a new row has ref_count 1).
Upserted(layers, d) ==
  [x \in DOMAIN layers \cup {d} |->
     IF x = d THEN (IF d \in DOMAIN layers THEN layers[d] + 1 ELSE 1)
     ELSE layers[x]]

PullCommitRow ==
  /\ sOp.pc = "row"
  /\ sLayers' = Upserted(sLayers, CurLayer)
  /\ sOp' = [sOp EXCEPT !.pc = "layer", !.i = @ + 1]
  /\ UNCHANGED <<sImages, sImgLayers, sDisk, sLast, nOps, sClean, sFresh>>

\* Store::rootfs_complete.
RootfsComplete(m) == m \in sRootfs

\* pull, lines 227-232: save_config, then the rootfs_complete test.
PullConfig ==
  /\ sOp.pc = "layer"
  /\ sOp.i > Len(ManifestLayers(sOp.man))
  /\ sConfigs' = sConfigs \cup {sOp.man}
  /\ sOp' = [sOp EXCEPT
               !.pc = IF RootfsComplete(sOp.man) THEN "index" ELSE "extract"]
  /\ UNCHANGED <<sDb, sBlobs, sTmpBlobs, sRootfs, sTmpRootfs, sPart, sLast,
                 nOps, sClean, sFresh>>

\* pull, lines 241-245: a stale staging directory is removed; the extraction
\* then starts in a new, empty one.
PullStage ==
  /\ sOp.pc = "extract"
  /\ sTmpRootfs' = sTmpRootfs \cup {sOp.man}
  /\ sPart' = sPart \cup {RootfsStagingPath(sOp.man)}
  /\ sOp' = [sOp EXCEPT !.pc = "unpack"]
  /\ UNCHANGED <<sDb, sBlobs, sTmpBlobs, sConfigs, sRootfs, sLast, nOps,
                 sClean, sFresh>>

\* pull, lines 247-253: extract_layer_files unpacks every layer into the
\* staging directory; it returns Ok when all are unpacked, or fails part-way.
PullExtract ==
  /\ sOp.pc = "unpack"
  /\ UNCHANGED <<sDb, sBlobs, sTmpBlobs, sConfigs, sRootfs, sTmpRootfs>>
  /\ \/ /\ sPart' = sPart \ {RootfsStagingPath(sOp.man)}
        /\ sOp' = [sOp EXCEPT !.pc = "rootfs"]
        /\ UNCHANGED <<sLast, nOps, sClean, sFresh>>
     \/ /\ sPart' = sPart
        /\ PullFails("Io")

\* commit_rootfs, lines 198-210: when the final directory exists the staging
\* directory is discarded, otherwise it is renamed into place.
PullCommitRootfs ==
  /\ sOp.pc = "rootfs"
  /\ sTmpRootfs' = sTmpRootfs \ {sOp.man}
  /\ IF RootfsComplete(sOp.man)
     THEN /\ sRootfs' = sRootfs
          /\ sPart' = sPart \ {RootfsStagingPath(sOp.man)}
     ELSE /\ sRootfs' = sRootfs \cup {sOp.man}
          /\ sPart' = Renamed(sPart, RootfsStagingPath(sOp.man),
                              RootfsPath(sOp.man))
  /\ sOp' = [sOp EXCEPT !.pc = "index"]
  /\ UNCHANGED <<sDb, sBlobs, sTmpBlobs, sConfigs, sLast, nOps, sClean,
                 sFresh>>

\* The image_layers rows of reference r.
NoRowsOf(r) == {}
RowsOf(r) == {x \in sImgLayers : x[1] = r}

\* upsert_image, lines 213-265, one transaction: the images row, DELETE of the
\* old image_layers rows, INSERT OR IGNORE of the new ones. image_layers
\* references layers(digest) and foreign keys are enforced (line 95), so an
\* INSERT for a layer without a layers row fails and the transaction is rolled
\* back. Then pull returns (lines 268-274).
PullIndex ==
  /\ sOp.pc = "index"
  /\ UNCHANGED <<sLayers, sDisk>>
  /\ IF LayerSet(sOp.man) \subseteq DOMAIN sLayers
     THEN /\ sImages' = [sImages EXCEPT ![sOp.ref] = sOp.man]
          /\ sImgLayers' = (sImgLayers \ RowsOf(sOp.ref))
                             \cup {<<sOp.ref, d>> : d \in LayerSet(sOp.man)}
          /\ Done([Outcome(sOp.by, sOp.ref, TRUE, "", sOp.calls, sOp.man,
                           sOp.fresh)
                     EXCEPT !.man = sOp.man, !.at = sOp.after,
                            !.pre = sOp.rerun])
          /\ sFresh' = sFresh \cup {sOp.ref}
     ELSE /\ UNCHANGED <<sImages, sImgLayers>>
          /\ PullFails("Db")

\* ensure, lines 287-289: get_digest returns Some(d) and rootfs_complete(d).
NeverCached(r) == FALSE
IsCached(r) == sImages[r] # "none" /\ RootfsComplete(sImages[r])

\* ensure, lines 282-304: the cached result, or pull.
EnsureStart(r) ==
  /\ CanStart
  /\ IF IsCached(r)
     THEN /\ Done(Outcome("ensure", r, TRUE, "", 0, sImages[r], r \in sFresh))
          /\ UNCHANGED <<sDb, sDisk, sFresh>>
     ELSE PullBegin(r, "ensure")

\* remove_image, lines 321-377. In the transaction: ref_count - 1 for each
\* layer of the image; DELETE of the images row, which cascades to its
\* image_layers rows; then, for each layers row with ref_count <= 0, DELETE of
\* the row and removal of the blob file. The DELETE of a layers row that an
\* image_layers row of another image references violates the foreign key:
\* remove_image returns the error and the transaction is rolled back, but the
\* blob files of the orphans deleted before it (the SELECT has no ORDER BY) are
\* gone. After the commit the rootfs directory of the image's digest is
\* removed.
Decremented(lds) ==
  [d \in DOMAIN sLayers |-> IF d \in lds THEN sLayers[d] - 1 ELSE sLayers[d]]

BelowZero(layers) == {d \in DOMAIN layers : layers[d] < 0}
Orphans(layers) == {d \in DOMAIN layers : layers[d] <= 0}

Referenced(rows) == {x[2] : x \in rows}

RemoveOutcome(r, ok) ==
  [Outcome("remove", r, ok, IF ok THEN "" ELSE "Db", 0, "none", r \in sFresh)
     EXCEPT !.had = sImages[r] # "none",
            !.shared = Referenced(RowsOf(r))
                         \cap Referenced(sImgLayers \ RowsOf(r)),
            !.own = Referenced(RowsOf(r))
                      \ Referenced(sImgLayers \ RowsOf(r)),
            !.swept = Orphans(Decremented(Referenced(RowsOf(r))))]

RemoveCommitted(r, layers, rows) ==
  /\ sLayers' = [d \in DOMAIN layers \ Orphans(layers) |-> layers[d]]
  /\ sImgLayers' = rows
  /\ sImages' = [sImages EXCEPT ![r] = "none"]
  /\ sBlobs' = sBlobs \ Orphans(layers)
  /\ sRootfs' = sRootfs \ {sImages[r]}
  /\ sPart' = sPart \ ({LayerPath(d) : d \in Orphans(layers)}
                        \cup {RootfsPath(sImages[r])})
  /\ Done(RemoveOutcome(r, TRUE))

RemoveRolledBack(r, deletable) ==
  /\ \E gone \in SUBSET deletable :
       /\ sBlobs' = sBlobs \ gone
       /\ sPart' = sPart \ {LayerPath(d) : d \in gone}
  /\ UNCHANGED <<sDb, sRootfs>>
  /\ Done(RemoveOutcome(r, FALSE))

RemoveTx(r, layers, rows) ==
  IF Orphans(layers) \cap Referenced(rows) = {}
  THEN RemoveCommitted(r, layers, rows)
  ELSE RemoveRolledBack(r, Orphans(layers) \ Referenced(rows))

Remove(r) ==
  /\ CanStart
  /\ RemoveTx(r, Decremented(Referenced(RowsOf(r))), sImgLayers \ RowsOf(r))
  /\ sFresh' = {}
  /\ UNCHANGED <<sTmpBlobs, sConfigs, sTmpRootfs>>

\* An operation that is interrupted (the process dies): nothing returns, the
\* files stay as they are, and the index keeps what was committed.
Interrupted(r, man, at, pre) ==
  [Outcome("crash", r, FALSE, "", 0, "none", r \in sFresh)
     EXCEPT !.man = man, !.at = at, !.pre = pre]

\* pull interrupted at the step it has reached.
PullCrash ==
  /\ sOp.pc # "idle"
  /\ Done(Interrupted(sOp.ref, sOp.man, sOp.pc, sOp.pre))
  /\ UNCHANGED <<sDb, sDisk, sFresh>>

\* remove_image interrupted before tx.commit (line 366): the transaction is
\* rolled back, and the blob files of the orphans the sweep had reached are
\* gone.
RemoveCrashTx(r, layers, rows) ==
  /\ \E gone \in SUBSET (Orphans(layers) \ Referenced(rows)) :
       /\ sBlobs' = sBlobs \ gone
       /\ sPart' = sPart \ {LayerPath(d) : d \in gone}
  /\ UNCHANGED <<sDb, sRootfs>>
  /\ Done(Interrupted(r, sImages[r], "remove.tx", NoState))

\* remove_image interrupted after tx.commit and before the rootfs directory is
\* removed (lines 368-376).
RemoveCrashCommitted(r, layers, rows) ==
  /\ Orphans(layers) \cap Referenced(rows) = {}
  /\ sLayers' = [d \in DOMAIN layers \ Orphans(layers) |-> layers[d]]
  /\ sImgLayers' = rows
  /\ sImages' = [sImages EXCEPT ![r] = "none"]
  /\ sBlobs' = sBlobs \ Orphans(layers)
  /\ sPart' = sPart \ {LayerPath(d) : d \in Orphans(layers)}
  /\ sRootfs' = sRootfs
  /\ Done(Interrupted(r, sImages[r], "remove.committed", NoState))

RemoveCrashAt(r, layers, rows) ==
  RemoveCrashTx(r, layers, rows) \/ RemoveCrashCommitted(r, layers, rows)

RemoveCrash(r) ==
  /\ CanStart
  /\ sImages[r] # "none"
  /\ RemoveCrashAt(r, Decremented(Referenced(RowsOf(r))),
                   sImgLayers \ RowsOf(r))
  /\ sFresh' = {}
  /\ UNCHANGED <<sTmpBlobs, sConfigs, sTmpRootfs>>

\* Store::open on an empty root.
StoreInit ==
  /\ sImages = [r \in Refs |-> "none"]
  /\ sImgLayers = {}
  /\ sLayers = <<>>
  /\ sBlobs = {} /\ sTmpBlobs = {} /\ sConfigs = {}
  /\ sRootfs = {} /\ sTmpRootfs = {}
  /\ sPart = {}
  /\ sOp = IdleOp
  /\ sLast = NoOutcome
  /\ nOps = 0
  /\ sClean = TRUE
  /\ sFresh = {}

\* The last thing that happened is that an operation `op` returned.
Returned(op) == sOp.pc = "idle" /\ sLast.op = op

\* C8. Pull then ensure: a reference pulled successfully, with no remove
\* since, has an images row whose rootfs directory exists; ensure of it
\* returns Ok without a registry call, and the rootfs it returns exists.
C8_PullThenEnsure ==
  /\ \A r \in sFresh : sImages[r] # "none" /\ sImages[r] \in sRootfs
  /\ (Returned("ensure") /\ sLast.fresh) =>
       /\ sLast.ok
       /\ sLast.calls = 0
       /\ sLast.dir = sImages[sLast.ref]
       /\ sLast.dir \in sRootfs

\* ensure(a) has returned after pull(a) and another operation on b.
C8_Witness ==
  /\ Returned("ensure") /\ sLast.fresh /\ sLast.ok /\ sLast.ref = "a"
  /\ nOps = 3
  /\ sImages["b"] # "none"

\* The number of image_layers rows with layer_digest d.
RowCount(d) == Cardinality({x \in sImgLayers : x[2] = d})

\* C9. Layer ref-count invariant: after completed (successful) pulls and
\* removes, every layers row has ref_count equal to the number of image_layers
\* rows for its digest.
C9_RefCount ==
  (sOp.pc = "idle" /\ sClean) =>
    \A d \in DOMAIN sLayers : sLayers[d] = RowCount(d)

\* The same while no two images have shared a layer and no tag has moved.
RefCountUnshared ==
  (sOp.pc = "idle" /\ sClean /\ \A d \in DOMAIN sLayers : RowCount(d) = 1)
    => \A d \in DOMAIN sLayers : sLayers[d] = 1

\* C10. Remove is ref-counted: after successful pulls and removes, remove of a
\* stored image succeeds; the layers it shares with another image keep blob
\* file and layers row; the layers only it references lose both.
C10_RemoveRefCounted ==
  (Returned("remove") /\ sLast.had /\ sLast.clean) =>
    /\ sLast.ok
    /\ \A d \in sLast.shared : d \in sBlobs /\ d \in DOMAIN sLayers
    /\ \A d \in sLast.own : d \notin sBlobs /\ d \notin DOMAIN sLayers

\* The same for an image that shares no layer with another image.
RemoveUnshared ==
  (Returned("remove") /\ sLast.had /\ sLast.clean /\ sLast.shared = {}) =>
    /\ sLast.ok
    /\ \A d \in sLast.own : d \notin sBlobs /\ d \notin DOMAIN sLayers

\* No image that shares a layer with another image can be removed.
RemoveSharedFails ==
  (Returned("remove") /\ sLast.had /\ sLast.clean /\ sLast.shared # {}) =>
    ~sLast.ok /\ sLast.err = "Db"

PulledFrom(pre, r, m) ==
  [images |-> [pre.images EXCEPT ![r] = m],
   rows |-> {x \in pre.rows : x[1] # r} \cup {<<r, d>> : d \in LayerSet(m)},
   layers |-> [d \in DOMAIN pre.layers \cup (LayerSet(m) \ pre.blobs) |->
                 IF d \in pre.blobs \/ d \notin LayerSet(m) THEN pre.layers[d]
                 ELSE IF d \in DOMAIN pre.layers THEN pre.layers[d] + 1
                 ELSE 1],
   blobs |-> pre.blobs \cup LayerSet(m),
   rootfs |-> pre.rootfs \cup {m}]

\* A pull that was not interrupted and returned Ok has this effect.
PullEffect ==
  [][(sOp.pc = "index" /\ sOp'.pc = "idle" /\ sLast'.ok
        /\ sOp.pre # NoState) =>
       /\ sImages' = PulledFrom(sOp.pre, sOp.ref, sOp.man).images
       /\ sImgLayers' = PulledFrom(sOp.pre, sOp.ref, sOp.man).rows
       /\ sLayers' = PulledFrom(sOp.pre, sOp.ref, sOp.man).layers
       /\ sBlobs' = PulledFrom(sOp.pre, sOp.ref, sOp.man).blobs
       /\ sRootfs' = PulledFrom(sOp.pre, sOp.ref, sOp.man).rootfs]_storeVars

\* pull(r) has returned; the operation before it was a pull(r) of the same
\* manifest that was interrupted, in a store where every operation had
\* returned Ok; the registry and the extraction did not fail this time.
Rerun ==
  /\ Returned("pull")
  /\ sLast.at # "none"
  /\ sLast.err \notin {"Registry", "Io"}

\* C13. Crash convergence: re-running a pull that was interrupted at any step
\* succeeds, and the store ends as after an uninterrupted pull.
C13_CrashConvergence ==
  Rerun =>
    /\ sLast.ok
    /\ StoreState = PulledFrom(sLast.pre, sLast.ref, sLast.man)

\* The same for an interruption anywhere but between the rename and the
\* layers-row upsert of commit_layer.
ConvergesOutsideCommitLayer ==
  (Rerun /\ sLast.at # "row") =>
    /\ sLast.ok
    /\ StoreState = PulledFrom(sLast.pre, sLast.ref, sLast.man)

\* After an interruption between the rename and the upsert, the re-run fails
\* in upsert_image.
StuckAfterCommitLayer ==
  (Rerun /\ sLast.at = "row") => (~sLast.ok /\ sLast.err = "Db")

\* C14. A rootfs directory is deleted only when no images row references its
\* digest.
C14_RootfsKept ==
  [][\A m \in sRootfs \ sRootfs' :
       \A r \in Refs : sImages'[r] # m]_storeVars

\* While no operation has been interrupted and none has failed.
RootfsKeptWhileClean ==
  [][sClean' => \A m \in sRootfs \ sRootfs' :
                  \A r \in Refs : sImages'[r] # m]_storeVars

\* C33. When pull returns Ok, the images row of its reference carries the
\* manifest digest pulled and the image_layers rows of the reference are
\* exactly one per distinct layer digest of that manifest, the previous ones
\* removed and the rows of other references untouched; when the index update
\* fails, images and image_layers stay as they were.
C33_IndexUpdate ==
  [][(sOp.pc = "index" /\ sOp'.pc = "idle") =>
       IF sLast'.ok
       THEN /\ sImages' = [sImages EXCEPT ![sOp.ref] = sOp.man]
            /\ {x \in sImgLayers' : x[1] = sOp.ref}
                 = {<<sOp.ref, ManifestLayers(sOp.man)[i]>> :
                      i \in 1..Len(ManifestLayers(sOp.man))}
            /\ {x \in sImgLayers' : x[1] # sOp.ref}
                 = {x \in sImgLayers : x[1] # sOp.ref}
       ELSE sImages' = sImages /\ sImgLayers' = sImgLayers]_storeVars

\* Reference a was pulled as m1 and then, its tag moved, as m3: the rows of
\* LA are gone from image_layers while its layers row is still there.
C33_Witness ==
  /\ Returned("pull") /\ sLast.ok /\ sLast.ref = "a" /\ sLast.man = "m3"
  /\ nOps = 2 /\ sLast.fresh
  /\ sImages = [r \in Refs |-> IF r = "a" THEN "m3" ELSE "none"]
  /\ sImgLayers = {<<"a", "L">>, <<"a", "LC">>}
  /\ "LA" \in DOMAIN sLayers

\* The index update of a pull of b has failed: the rows of a are as its
\* pull left them and b has none.
IndexRolledBack ==
  /\ Returned("pull") /\ ~sLast.ok /\ sLast.err = "Db" /\ sLast.ref = "b"
  /\ sImages = [r \in Refs |-> IF r = "a" THEN "m3" ELSE "none"]
  /\ sImgLayers = {<<"a", "L">>, <<"a", "LC">>}

\* A step in which remove_image returns an error.
RemoveErrs ==
  sOp.pc = "idle" /\ nOps' = nOps + 1 /\ sLast'.op = "remove" /\ ~sLast'.ok

\* C34. When remove(r) returns an error, the images, image_layers and layers
\* rows (every ref_count) are as before the call, and no blob file and no
\* rootfs directory has been deleted.
C34_RemoveAllOrNothing ==
  [][RemoveErrs =>
       /\ sImages' = sImages /\ sImgLayers' = sImgLayers /\ sLayers' = sLayers
       /\ sBlobs' = sBlobs
       /\ sRootfs' = sRootfs]_storeVars

\* The index and the rootfs directories are as before a remove that failed.
FailedRemoveKeepsIndex ==
  [][RemoveErrs =>
       /\ sImages' = sImages /\ sImgLayers' = sImgLayers /\ sLayers' = sLayers
       /\ sRootfs' = sRootfs]_storeVars

\* remove has returned an error and a layer that an image references, with
\* its layers row in place, has lost its blob file.
BlobLostInFailedRemove ==
  /\ Returned("remove") /\ ~sLast.ok /\ sLast.clean
  /\ \E x \in sImgLayers :
       x[1] = sLast.ref /\ x[2] \in DOMAIN sLayers /\ x[2] \notin sBlobs

\* C35. After pulls and removes that have all completed, every rootfs
\* directory is the digest of some images row, and every layers row and every
\* blob file is referenced by at least one image_layers row.
C35_NoLeakedEntries ==
  (sOp.pc = "idle" /\ sClean) =>
    /\ \A m \in sRootfs : \E r \in Refs : sImages[r] = m
    /\ \A d \in DOMAIN sLayers \cup sBlobs : \E x \in sImgLayers : x[2] = d

\* Reference a was pulled as m1 and pulled again as m3: the rootfs directory
\* of m1 and the layers row and blob of LA are left with nothing naming them.
LeakAfterRepull ==
  /\ sOp.pc = "idle" /\ sClean /\ nOps = 2
  /\ sImages = [r \in Refs |-> IF r = "a" THEN "m3" ELSE "none"]
  /\ "m1" \in sRootfs
  /\ "LA" \in DOMAIN sLayers /\ "LA" \in sBlobs
  /\ \A x \in sImgLayers : x[2] # "LA"

\* ------------------------------------------------- disk images (bux, disk.rs)
\* The base images of one DiskManager: disks/bases/<digest>.raw, built from a
\* rootfs directory through the staging name <digest>.raw.tmp.

VARIABLES
  dBases,    \* <digest>.raw: the rootfs it was built from, or "none"
  dTmps,     \* the digests with a <digest>.raw.tmp file
  dRet,      \* for each digest, the paths create_base has returned
  dLast,     \* the last call and what it did
  nDisk      \* the number of calls made

diskVars == <<dBases, dTmps, dRet, dLast, nDisk>>

MaxDiskOps == 4

Digests == {"d1", "d2"}
RootfsDirs == {"r1", "r2"}

\* base_path.
BasePath(digest) == <<"bases", digest, ".raw">>

\* has_base, and the test of create_base (line 61).
NoBase(digest) == FALSE
HasBase(digest) == dBases[digest] # "none"

\* What a call did: sys lists the operations it made on the image and its
\* staging file; existed says the image was there when it began.
DiskCall(op, rootfs, digest, ok, path, sys) ==
  [op |-> op, rootfs |-> rootfs, digest |-> digest, ok |-> ok, path |-> path,
   sys |-> sys, existed |-> dBases[digest] # "none",
   before |-> dBases[digest]]

DiskDone(res) ==
  /\ dLast' = res
  /\ nDisk' = nDisk + 1
  /\ dRet' = IF res.op = "create_base" /\ res.ok
             THEN [dRet EXCEPT ![res.digest] = @ \cup {res.path}]
             ELSE dRet

\* create_base, lines 59-73, with the outcome of each fallible call chosen:
\* how is "ok", or the call that fails.
CreateBase(rootfs, digest, how) ==
  /\ nDisk < MaxDiskOps
  /\ IF HasBase(digest)
     THEN /\ how = "ok"
          /\ UNCHANGED <<dBases, dTmps>>
          /\ DiskDone(DiskCall("create_base", rootfs, digest, TRUE,
                               BasePath(digest), <<>>))
     ELSE CASE how = "estimate" ->
                 /\ UNCHANGED <<dBases, dTmps>>
                 /\ DiskDone(DiskCall("create_base", rootfs, digest, FALSE,
                                      <<>>, <<"estimate">>))
            [] how = "build" ->
                 /\ dTmps' = dTmps \cup {digest}
                 /\ UNCHANGED dBases
                 /\ DiskDone(DiskCall("create_base", rootfs, digest, FALSE,
                                      <<>>, <<"estimate", "build">>))
            [] how = "rename" ->
                 /\ dTmps' = dTmps \cup {digest}
                 /\ UNCHANGED dBases
                 /\ DiskDone(DiskCall("create_base", rootfs, digest, FALSE,
                                      <<>>, <<"estimate", "build", "rename">>))
            [] OTHER ->
                 /\ dTmps' = dTmps \ {digest}
                 /\ dBases' = [dBases EXCEPT ![digest] = rootfs]
                 /\ DiskDone(DiskCall("create_base", rootfs, digest, TRUE,
                                      BasePath(digest),
                                      <<"estimate", "build", "rename">>))

CreateOutcomes == {"ok", "estimate", "build", "rename"}

\* remove_base, lines 114-120.
RemoveBase(digest) ==
  /\ nDisk < MaxDiskOps
  /\ dBases' = [dBases EXCEPT ![digest] = "none"]
  /\ UNCHANGED dTmps
  /\ DiskDone(DiskCall("remove_base", "none", digest, TRUE, <<>>,
                       IF HasBase(digest) THEN <<"remove">> ELSE <<>>))

\* DiskManager::open on an empty data directory.
DiskInit ==
  /\ dBases = [d \in Digests |-> "none"]
  /\ dTmps = {}
  /\ dRet = [d \in Digests |-> {}]
  /\ dLast = [op |-> "none", existed |-> FALSE, ok |-> TRUE]
  /\ nDisk = 0

\* C15. create_base is idempotent: every Ok return for a digest gives the
\* same path, and a call that finds the image returns Ok with that path
\* without estimating, building or renaming, and leaves the image as it was.
C15_CreateBaseIdempotent ==
  /\ \A d \in Digests : Cardinality(dRet[d]) <= 1
  /\ (dLast.op = "create_base" /\ dLast.existed) =>
       /\ dLast.ok
       /\ dLast.path = BasePath(dLast.digest)
       /\ dLast.sys = <<>>
       /\ dBases[dLast.digest] = dLast.before

\* create_base has been called for an existing image with another rootfs
\* directory than the one it was built from.
C15_Witness ==
  /\ dLast.op = "create_base" /\ dLast.existed /\ dLast.ok
  /\ dLast.rootfs # dBases[dLast.digest]
  /\ dRet[dLast.digest] = {BasePath(dLast.digest)}

\* --------------------------------------- image size estimate (bux-e2fs)
\* u64 values are little-endian sequences of 16-bit limbs, so that the
\* arithmetic of estimate_image_size keeps its width: a u64 has U64Limbs
\* limbs, and the same operators on WideLimbs limbs give the value in the
\* integers. Every operator returns the wrapped value v and whether the
\* result overflowed the width.

LimbBase == 2^16
U64Limbs == 64 \div 16
WideLimbs == U64Limbs + 2

\* hi * 65536 + lo on n limbs.
Lit(hi, lo, n) ==
  [i \in 1..n |-> IF i = 1 THEN lo ELSE IF i = 2 THEN hi ELSE 0]

Widen(a, n) == [i \in 1..n |-> IF i <= Len(a) THEN a[i] ELSE 0]

\* The carry into limb i of a + b.
RECURSIVE AddCarry(_, _, _)
AddCarry(a, b, i) ==
  IF i = 1 THEN 0
  ELSE (a[i - 1] + b[i - 1] + AddCarry(a, b, i - 1)) \div LimbBase

UAdd(a, b) ==
  [v |-> [i \in 1..Len(a) |-> (a[i] + b[i] + AddCarry(a, b, i)) % LimbBase],
   over |-> AddCarry(a, b, Len(a) + 1) # 0]

\* The carry into limb i of a * k, for a small k.
RECURSIVE MulCarry(_, _, _)
MulCarry(a, k, i) ==
  IF i = 1 THEN 0
  ELSE (a[i - 1] * k + MulCarry(a, k, i - 1)) \div LimbBase

UMul(a, k) ==
  [v |-> [i \in 1..Len(a) |-> (a[i] * k + MulCarry(a, k, i)) % LimbBase],
   over |-> MulCarry(a, k, Len(a) + 1) # 0]

\* The remainder of the limbs above limb i of a, divided by a small k.
RECURSIVE DivRem(_, _, _)
DivRem(a, k, i) ==
  IF i >= Len(a) THEN 0
  ELSE (DivRem(a, k, i + 1) * LimbBase + a[i + 1]) % k

UDiv(a, k) ==
  [i \in 1..Len(a) |-> (DivRem(a, k, i) * LimbBase + a[i]) \div k]

\* a < b, from the top limb down.
RECURSIVE ULessFrom(_, _, _)
ULessFrom(a, b, i) ==
  IF i = 0 THEN FALSE
  ELSE IF a[i] # b[i] THEN a[i] < b[i]
  ELSE ULessFrom(a, b, i - 1)

ULess(a, b) == ULessFrom(a, b, Len(a))

UMax(a, b) == IF ULess(a, b) THEN b ELSE a

\* x & !4095.
ClearLow12(a) == [a EXCEPT ![1] = @ - (@ % 4096)]

\* (len + 4095) & !4095 (line 410).
RoundUp4K(len) ==
  [v |-> ClearLow12(UAdd(len, Lit(0, 4095, Len(len))).v),
   over |-> UAdd(len, Lit(0, 4095, Len(len))).over]

\* A directory entry as symlink_metadata describes it: its kind, its length
\* and, for a directory, its entries; a directory may be unreadable.
File(len) == [kind |-> "file", len |-> len, kids |-> <<>>, denied |-> FALSE]
Dir(kids) ==
  [kind |-> "dir", len |-> Lit(0, 4096, U64Limbs), kids |-> kids,
   denied |-> FALSE]
DeniedDir == [Dir(<<>>) EXCEPT !.denied = TRUE]
Symlink(n) ==
  [kind |-> "symlink", len |-> Lit(0, n, U64Limbs), kids |-> <<>>,
   denied |-> FALSE]
Fifo ==
  [kind |-> "other", len |-> Lit(0, 0, U64Limbs), kids |-> <<>>,
   denied |-> FALSE]

\* walk, lines 453-464: every entry below dir in read_dir order, a
\* directory followed by what is below it; read_dir of an unreadable
\* directory fails the walk.
RECURSIVE Walk(_)
Walk(entries) ==
  IF entries = <<>> THEN [ok |-> TRUE, metas |-> <<>>]
  ELSE [ok |-> /\ ~entries[1].denied
               /\ Walk(entries[1].kids).ok
               /\ Walk(Tail(entries)).ok,
        metas |-> <<entries[1]>> \o Walk(entries[1].kids).metas
                    \o Walk(Tail(entries)).metas]

\* The bytes the closure adds for one entry (lines 408-417).
EntryBytes(meta, n) ==
  CASE meta.kind = "file" -> RoundUp4K(Widen(meta.len, n))
    [] meta.kind = "dir" -> [v |-> Lit(0, 4096, n), over |-> FALSE]
    [] meta.kind = "symlink" /\ ULess(Lit(0, 60, n), Widen(meta.len, n)) ->
         [v |-> Lit(0, 4096, n), over |-> FALSE]
    [] OTHER -> [v |-> Lit(0, 0, n), over |-> FALSE]

\* The closure of estimate_image_size applied to the entries in order:
\* total_bytes and inode_count on n limbs, and whether an addition
\* overflowed.
RECURSIVE Totals(_, _)
Totals(metas, n) ==
  IF metas = <<>>
  THEN [total |-> Lit(0, 0, n), inodes |-> Lit(0, 0, n), over |-> FALSE]
  ELSE [total |->
          UAdd(Totals(SubSeq(metas, 1, Len(metas) - 1), n).total,
               EntryBytes(metas[Len(metas)], n).v).v,
        inodes |->
          UAdd(Totals(SubSeq(metas, 1, Len(metas) - 1), n).inodes,
               Lit(0, 1, n)).v,
        over |-> \/ Totals(SubSeq(metas, 1, Len(metas) - 1), n).over
                 \/ EntryBytes(metas[Len(metas)], n).over
                 \/ UAdd(Totals(SubSeq(metas, 1, Len(metas) - 1), n).total,
                         EntryBytes(metas[Len(metas)], n).v).over]

\* 64 * 1024 * 1024 and 256 * 1024 * 1024 on n limbs.
MiB64(n) == Lit(1024, 0, n)
MiB256(n) == Lit(4096, 0, n)

\* Lines 421-423 on n limbs: raw, sized and the result.
Raw(t, n) == UAdd(t.total, UMul(t.inodes, 256).v)
Sized(t, n) ==
  UAdd(UDiv(UMul(Raw(t, n).v, 11).v, 10), MiB64(n))
SizeOf(t, n) ==
  [v |-> UMax(Sized(t, n).v, MiB256(n)),
   over |-> \/ t.over \/ UMul(t.inodes, 256).over \/ Raw(t, n).over
            \/ UMul(Raw(t, n).v, 11).over \/ Sized(t, n).over]

VARIABLES
  eTree,     \* the directory tree of the last estimate_image_size call
  eRet       \* what the call returned

estVars == <<eTree, eRet>>

MaxEntries == 2

\* A sparse file of 2 EiB (2^61 bytes).
Sparse2EiB == <<0, 0, 0, 8192>>

FileLens ==
  {Lit(0, 0, U64Limbs), Lit(0, 1, U64Limbs), Lit(0, 4096, U64Limbs),
   Lit(0, 4097, U64Limbs), MiB256(U64Limbs), Sparse2EiB}

Leaves ==
  {File(len) : len \in FileLens} \cup {Symlink(60), Symlink(61), Fifo}

Entries == Leaves \cup {Dir(<<>>), DeniedDir} \cup {Dir(<<e>>) : e \in Leaves}

NoEstimate == [st |-> "none", v |-> Lit(0, 0, U64Limbs)]

\* estimate_image_size, lines 402-424. An arithmetic overflow panics in a
\* build with overflow checks and wraps in a build without them.
EstimateImageSize(tree, checks) ==
  IF ~Walk(tree).ok THEN [st |-> "Io", v |-> Lit(0, 0, U64Limbs)]
  ELSE IF SizeOf(Totals(Walk(tree).metas, U64Limbs), U64Limbs).over /\ checks
  THEN [st |-> "panic", v |-> Lit(0, 0, U64Limbs)]
  ELSE [st |-> "ok",
        v |-> SizeOf(Totals(Walk(tree).metas, U64Limbs), U64Limbs).v]

\* An entry appears in the directory.
AddEntry(e) ==
  /\ Len(eTree) < MaxEntries
  /\ eTree' = Append(eTree, e)
  /\ eRet' = NoEstimate

\* A call of estimate_image_size on the directory.
Estimate(checks) ==
  /\ eRet' = EstimateImageSize(eTree, checks)
  /\ UNCHANGED eTree

EstInit == eTree = <<>> /\ eRet = NoEstimate

\* The same computation in the integers.
ExactSize(tree) == SizeOf(Totals(Walk(tree).metas, WideLimbs), WideLimbs)

\* The sum over the regular files of the length rounded up to 4 KiB.
RECURSIVE FileSum(_)
FileSum(metas) ==
  IF metas = <<>> THEN Lit(0, 0, WideLimbs)
  ELSE UAdd(FileSum(Tail(metas)),
            IF metas[1].kind = "file"
            THEN RoundUp4K(Widen(metas[1].len, WideLimbs)).v
            ELSE Lit(0, 0, WideLimbs)).v

Estimated == eRet.st \notin {"none", "Io"}

Overflows(tree) ==
  SizeOf(Totals(Walk(tree).metas, U64Limbs), U64Limbs).over

\* C16. For every directory tree estimate_image_size returns at least
\* 256 MiB, more than the sum of the regular files' lengths rounded up to
\* 4 KiB, and exactly max((content + 256 * inodes) * 11 / 10 + 64 MiB,
\* 256 MiB) computed in the integers.
C16_EstimateImageSize ==
  Estimated =>
    /\ eRet.st = "ok"
    /\ ~ULess(eRet.v, MiB256(U64Limbs))
    /\ ULess(FileSum(Walk(eTree).metas), Widen(eRet.v, WideLimbs))
    /\ Widen(eRet.v, WideLimbs) = ExactSize(eTree).v

\* The integer computation stays within WideLimbs limbs.
ExactInRange == Walk(eTree).ok => ~ExactSize(eTree).over

\* Every value that is returned is at least 256 MiB.
AtLeast256MiB == eRet.st = "ok" => ~ULess(eRet.v, MiB256(U64Limbs))

\* Where the u64 arithmetic does not overflow the estimate is the integer
\* value and exceeds the files' rounded lengths.
ExactBelowOverflow ==
  (Estimated /\ ~Overflows(eTree)) =>
    /\ eRet.st = "ok"
    /\ ULess(FileSum(Walk(eTree).metas), Widen(eRet.v, WideLimbs))
    /\ Widen(eRet.v, WideLimbs) = ExactSize(eTree).v

\* An estimate has been returned for a tree whose arithmetic overflows.
WrappedEstimate == eRet.st = "ok" /\ Overflows(eTree)

\* ------------------------------------------------- VM runtime and registry
\* The registry of VM records and the shim processes behind them, as the
\* commands of bux-cli/src/vm.rs use them through Runtime::get and the
\* handle's stop and kill. Identifiers and names are strings, written as
\* sequences of characters.

VARIABLES
  rVms,      \* the VmRecords: id, name (a set of at most one string), status
  rProcs,    \* the ids whose shim process is alive
  rAsked,    \* the ids whose guest agent has received Shutdown
  rStop,     \* the stop() in progress: its position and the record's id
  rLast      \* the last command and what it returned

rtVars == <<rVms, rProcs, rAsked, rStop, rLast>>

VmIds == {<<"a", "b">>, <<"a", "c">>, <<"b", "c">>}
VmNames == {<<"a">>, <<"a", "b">>}
Queries == {<<"a">>, <<"b">>, <<"w">>, <<"a", "b">>}

StartsWith(id, s) ==
  Len(s) <= Len(id) /\ SubSeq(id, 1, Len(s)) = s

Found(id) == [t |-> "Found", id |-> id]
NotFound == [t |-> "NotFound", id |-> <<>>]
Ambiguous == [t |-> "Ambiguous", id |-> <<>>]

Named(vms, s) == {v \in vms : s \in v.name}
Prefixed(vms, s) == {v \in vms : StartsWith(v.id, s)}

\* A lookup that tries the id prefix before the name.
PrefixFirst(vms, s) ==
  IF Cardinality(Prefixed(vms, s)) = 1
  THEN Found((CHOOSE v \in Prefixed(vms, s) : TRUE).id)
  ELSE IF Named(vms, s) # {}
  THEN Found((CHOOSE v \in Named(vms, s) : TRUE).id)
  ELSE IF Prefixed(vms, s) = {} THEN NotFound
  ELSE Ambiguous

\* Runtime::get: the record with that name, else the records whose id
\* starts with the string.
Get(vms, s) ==
  IF Named(vms, s) # {}
  THEN Found((CHOOSE v \in Named(vms, s) : TRUE).id)
  ELSE IF Prefixed(vms, s) = {} THEN NotFound
  ELSE IF Cardinality(Prefixed(vms, s)) = 1
  THEN Found((CHOOSE v \in Prefixed(vms, s) : TRUE).id)
  ELSE Ambiguous

NoStop == [pc |-> "idle", id |-> <<>>, killed |-> FALSE]
CmdResult(op, s, res) == [op |-> op, s |-> s, res |-> res]

Marked(vms, id, status) ==
  {IF v.id = id THEN [v EXCEPT !.status = status] ELSE v : v \in vms}

\* Runtime::spawn, step 5: a record with a new id and a name no other
\* record has, status Running, behind a live shim process.
Spawn(id, name) ==
  /\ rStop.pc = "idle"
  /\ \A v \in rVms : v.id # id /\ v.name \cap name = {}
  /\ id \notin rProcs
  /\ rVms' = rVms \cup {[id |-> id, name |-> name, status |-> "Running"]}
  /\ rProcs' = rProcs \cup {id}
  /\ rLast' = CmdResult("spawn", id, Found(id))
  /\ UNCHANGED <<rAsked, rStop>>

\* inspect (vm.rs 106-111): rt.get(id)?.
Inspect(s) ==
  /\ rStop.pc = "idle"
  /\ rLast' = CmdResult("get", s, Get(rVms, s))
  /\ UNCHANGED <<rVms, rProcs, rAsked, rStop>>

\* The VM ends by itself: the guest agent exits after a Shutdown, or the
\* VM crashes.
VmExit(id) ==
  /\ id \in rProcs
  /\ rProcs' = rProcs \ {id}
  /\ rAsked' = rAsked \ {id}
  /\ UNCHANGED <<rVms, rStop, rLast>>

\* stop (vm.rs 52-58): rt.get(id)?, then handle.stop().
StopBegin(s) ==
  /\ rStop.pc = "idle"
  /\ IF Get(rVms, s).t = "Found"
     THEN /\ rStop' = [pc |-> "send", id |-> Get(rVms, s).id, killed |-> FALSE]
          /\ rLast' = CmdResult("stop", s, Get(rVms, s))
     ELSE /\ rLast' = CmdResult("stop", s, Get(rVms, s))
          /\ UNCHANGED rStop
  /\ UNCHANGED <<rVms, rProcs, rAsked>>

\* handle.stop(): Shutdown is sent to the guest agent, which receives it
\* when the VM is alive and the agent reachable.
StopSend(reached) ==
  /\ rStop.pc = "send"
  /\ rAsked' = IF reached /\ rStop.id \in rProcs
               THEN rAsked \cup {rStop.id} ELSE rAsked
  /\ rStop' = [rStop EXCEPT !.pc = "wait"]
  /\ UNCHANGED <<rVms, rProcs, rLast>>

\* The wait ends because the process has exited.
StopWaited ==
  /\ rStop.pc = "wait"
  /\ rStop.id \notin rProcs
  /\ rStop' = [rStop EXCEPT !.pc = "mark"]
  /\ UNCHANGED <<rVms, rProcs, rAsked, rLast>>

\* A stop that gives up at the timeout.
GiveUp ==
  /\ rStop.pc = "wait"
  /\ rStop.id \in rProcs
  /\ rStop' = [rStop EXCEPT !.pc = "mark"]
  /\ UNCHANGED <<rVms, rProcs, rAsked, rLast>>

\* The wait ends at the timeout with the process still there.
StopTimeout ==
  /\ rStop.pc = "wait"
  /\ rStop.id \in rProcs
  /\ rStop' = [rStop EXCEPT !.pc = "kill"]
  /\ UNCHANGED <<rVms, rProcs, rAsked, rLast>>

\* The escalation: SIGKILL to the shim process.
StopKill ==
  /\ rStop.pc = "kill"
  /\ rProcs' = rProcs \ {rStop.id}
  /\ rAsked' = rAsked \ {rStop.id}
  /\ rStop' = [rStop EXCEPT !.pc = "mark", !.killed = TRUE]
  /\ UNCHANGED <<rVms, rLast>>

\* The status is applied and stop returns.
StopMark ==
  /\ rStop.pc = "mark"
  /\ rVms' = Marked(rVms, rStop.id, "Stopped")
  /\ rLast' = CmdResult(IF rStop.killed THEN "stop killed" ELSE "stop waited",
                        rStop.id, Found(rStop.id))
  /\ rStop' = NoStop
  /\ UNCHANGED <<rProcs, rAsked>>

\* kill (vm.rs 61-67): rt.get(id)?, then handle.kill(): SIGKILL, Stopped.
Kill(s) ==
  /\ rLast' = CmdResult("kill", s, Get(rVms, s))
  /\ IF Get(rVms, s).t = "Found"
     THEN /\ rProcs' = rProcs \ {Get(rVms, s).id}
          /\ rAsked' = rAsked \ {Get(rVms, s).id}
          /\ rVms' = Marked(rVms, Get(rVms, s).id, "Stopped")
     ELSE UNCHANGED <<rVms, rProcs, rAsked>>
  /\ UNCHANGED rStop

\* rm (vm.rs 70-75): the record must be Stopped; it is deleted.
Rm(s) ==
  /\ IF /\ Get(rVms, s).t = "Found"
        /\ \E v \in rVms : v.id = Get(rVms, s).id /\ v.status = "Stopped"
     THEN /\ rVms' = {v \in rVms : v.id # Get(rVms, s).id}
          /\ rLast' = CmdResult("rm", s, Get(rVms, s))
     ELSE /\ rLast' = CmdResult("rm", s, NotFound)
          /\ UNCHANGED rVms
  /\ UNCHANGED <<rProcs, rAsked, rStop>>

\* ps (vm.rs 18-49): rt.list() probes every process and downgrades the
\* records whose process is gone.
Ps ==
  /\ rVms' = {IF v.id \in rProcs THEN v ELSE [v EXCEPT !.status = "Stopped"] :
               v \in rVms}
  /\ rLast' = CmdResult("ps", <<>>, NotFound)
  /\ UNCHANGED <<rProcs, rAsked, rStop>>

RtInit ==
  /\ rVms = {} /\ rProcs = {} /\ rAsked = {}
  /\ rStop = NoStop
  /\ rLast = CmdResult("none", <<>>, NotFound)

\* C17. get(s) returns the record named s when there is one, even when s
\* is also a prefix of other records' ids; otherwise NotFound when no id
\* starts with s, that record when exactly one does, Ambiguous when two or
\* more do.
C17_GetResolution ==
  rLast.op = "get" =>
    /\ \A v \in rVms : rLast.s \in v.name => rLast.res = Found(v.id)
    /\ (\A v \in rVms : rLast.s \notin v.name) =>
         /\ Cardinality(Prefixed(rVms, rLast.s)) = 0 =>
              rLast.res = NotFound
         /\ Cardinality(Prefixed(rVms, rLast.s)) = 1 =>
              \E v \in Prefixed(rVms, rLast.s) : rLast.res = Found(v.id)
         /\ Cardinality(Prefixed(rVms, rLast.s)) >= 2 =>
              rLast.res = Ambiguous

\* get has returned the record named s although s is the whole id of
\* another record.
C17_Witness ==
  /\ rLast.op = "get" /\ rLast.res.t = "Found"
  /\ \E v \in rVms : rLast.s \in v.name /\ rLast.res.id = v.id
  /\ \E v \in rVms : v.id = rLast.s /\ v.id # rLast.res.id

\* get has returned each of the three outcomes of a prefix lookup.
GetPrefixOutcomes ==
  /\ rLast.op = "get" /\ rLast.res = Ambiguous
  /\ Cardinality(Prefixed(rVms, rLast.s)) = 2

Stopping == rStop.pc # "idle"

\* C18. stop() sends Shutdown, then waits; a process still alive at the
\* timeout is killed; the process is eventually not alive, and the status
\* becomes Stopped only after the wait, never while the process is alive.
C18_Stop ==
  /\ [][/\ (rStop.pc = "send" /\ rStop'.pc # "send") => rStop'.pc = "wait"
        /\ (rStop.pc # "kill" /\ rStop'.pc = "kill") =>
             rStop.pc = "wait" /\ rStop.id \in rProcs
        /\ (rStop.pc # "mark" /\ rStop'.pc = "mark") =>
             rStop.pc \in {"wait", "kill"} /\ rStop.id \notin rProcs'
        /\ \A v \in rVms' :
             (v.status = "Stopped" /\ v \notin rVms) => v.id \notin rProcs'
        /\ (rStop.pc # "idle" /\ rStop'.pc = "idle") => rStop.pc = "mark"
       ]_rtVars
  /\ \A id \in VmIds :
       (Stopping /\ rStop.id = id) ~> (id \notin rProcs)

\* stop() has killed a process that was still alive at the timeout and
\* has returned.
C18_Witness ==
  /\ rLast.op = "stop killed"
  /\ rStop.pc = "idle"
  /\ rLast.s \notin rProcs
  /\ \E v \in rVms : v.id = rLast.s /\ v.status = "Stopped"

\* ------------------------------------------------------ bux run (bux-cli)
\* The command of `bux run`. An Option is a set of at most one value, a Vec
\* a sequence.

VARIABLES
  uArgs,     \* the last run: the words after `--` and the image's config
  uExec,     \* the exec the builder was given, if any
  uRoot      \* the last run: its root arguments, what ensure and the disk
             \* creation returned, and the builder's root and root_disk

runVars == <<uArgs, uExec, uRoot>>

Words == {<<>>, <<"x">>, <<"y">>, <<"x", "y">>, <<"y", "x">>}
OptWords == {{}} \cup {{w} : w \in {<<>>, <<"e">>, <<"c">>, <<"e", "c">>}}
ImageConfigs == [entrypoint : OptWords, cmd : OptWords]
OptConfigs == {{}} \cup {{c} : c \in ImageConfigs}

\* parts.extend(v.iter().cloned()) under `if let Some(ref v)`.
Extended(parts, opt) ==
  IF opt = {} THEN parts ELSE parts \o (CHOOSE v \in opt : TRUE)

\* oci_command, run.rs 206-215, the same as ImageConfig::command,
\* lib.rs 111-120.
OciCommand(cfg) == Extended(Extended(<<>>, cfg.entrypoint), cfg.cmd)

\* The words after `--` appended to the image's entrypoint.
EntrypointFirst(command, cfg) ==
  IF cfg = {} THEN command
  ELSE IF command = <<>> THEN OciCommand(CHOOSE c \in cfg : TRUE)
  ELSE Extended(<<>>, (CHOOSE c \in cfg : TRUE).entrypoint) \o command

\* run.rs 131-135: CLI args > OCI ENTRYPOINT+CMD > none.
RunCommand(command, cfg) ==
  IF command = <<>>
  THEN IF cfg = {} THEN <<>> ELSE OciCommand(CHOOSE c \in cfg : TRUE)
  ELSE command

\* run.rs 136-139: b.exec(&cmd[0], &cmd[1..]) unless cmd is empty.
BuilderExec(cmd) ==
  IF cmd # <<>>
  THEN {[cmd |-> cmd[1], args |-> SubSeq(cmd, 2, Len(cmd))]}
  ELSE {}

\* The root arguments of a run: image, --root and --root-disk, of which clap
\* admits one at most (run.rs 9-18), and --disk; what Oci::ensure and
\* create_disk_from_rootfs return when they are called.
Ensured ==
  {[ok |-> FALSE, rootfs |-> "", config |-> {}]}
    \cup {[ok |-> TRUE, rootfs |-> "rootfs/m", config |-> c] : c \in OptConfigs}
Made == {[ok |-> FALSE, path |-> ""], [ok |-> TRUE, path |-> "bases/h.raw"]}

RootArgs ==
  {a \in [image : {{}, {"img"}}, root : {{}, {""}, {"dir"}},
          root_disk : {{}, {"disk.raw"}}, disk : BOOLEAN,
          ensured : Ensured, made : Made] :
     /\ Cardinality(a.image) + Cardinality(a.root) + Cardinality(a.root_disk)
          <= 1
     /\ a.image = {} => ~a.ensured.ok
     /\ ~a.disk => ~a.made.ok}

The(opt) == CHOOSE v \in opt : TRUE

\* resolve_rootfs, run.rs 189-202.
ResolveRootfs(a) ==
  IF a.image # {}
  THEN [ok |-> a.ensured.ok, rootfs |-> a.ensured.rootfs,
        cfg |-> a.ensured.config]
  ELSE IF a.root # {} THEN [ok |-> TRUE, rootfs |-> The(a.root), cfg |-> {}]
  ELSE IF a.root_disk # {} THEN [ok |-> TRUE, rootfs |-> "", cfg |-> {}]
  ELSE [ok |-> FALSE, rootfs |-> "", cfg |-> {}]

\* A selection that builds a disk whenever --disk is given.
DiskForEmpty(root_disk, use_disk, rootfs, made) ==
  IF root_disk # {}
  THEN [ok |-> TRUE, root |-> {}, root_disk |-> root_disk]
  ELSE IF use_disk
  THEN [ok |-> made.ok, root |-> {},
        root_disk |-> IF made.ok THEN {made.path} ELSE {}]
  ELSE [ok |-> TRUE, root |-> {rootfs}, root_disk |-> {}]

\* run, run.rs 111-119: explicit disk > --disk (auto-create) > directory.
RootSelection(root_disk, use_disk, rootfs, made) ==
  IF root_disk # {}
  THEN [ok |-> TRUE, root |-> {}, root_disk |-> root_disk]
  ELSE IF use_disk /\ rootfs # ""
  THEN [ok |-> made.ok, root |-> {},
        root_disk |-> IF made.ok THEN {made.path} ELSE {}]
  ELSE [ok |-> TRUE, root |-> {rootfs}, root_disk |-> {}]

\* run, run.rs 95-186: resolve_rootfs, the root of the builder, the command,
\* spawn_vm. A failure of resolve_rootfs or of the disk creation returns
\* before the builder is used.
Run(command, a) ==
  LET r == ResolveRootfs(a)
      s == RootSelection(a.root_disk, a.disk, r.rootfs, a.made)
  IN  /\ uArgs' = [ran |-> r.ok /\ s.ok, command |-> command, cfg |-> r.cfg]
      /\ uExec' = IF r.ok /\ s.ok THEN BuilderExec(RunCommand(command, r.cfg))
                  ELSE {}
      /\ uRoot' = [args |-> a,
                   root |-> IF r.ok /\ s.ok THEN s.root ELSE {},
                   root_disk |-> IF r.ok /\ s.ok THEN s.root_disk ELSE {}]

RunInit ==
  /\ uArgs = [ran |-> FALSE, command |-> <<>>, cfg |-> {}]
  /\ uExec = {}
  /\ uRoot = [args |-> [image |-> {}, root |-> {}, root_disk |-> {},
                        disk |-> FALSE,
                        ensured |-> [ok |-> FALSE, rootfs |-> "",
                                     config |-> {}],
                        made |-> [ok |-> FALSE, path |-> ""]],
              root |-> {}, root_disk |-> {}]

\* The image's entrypoint followed by its cmd, each empty when absent, and
\* empty without an image config.
ImageWords(cfg) ==
  IF cfg = {} THEN <<>>
  ELSE LET c == CHOOSE c \in cfg : TRUE
       IN (IF c.entrypoint = {} THEN <<>> ELSE CHOOSE v \in c.entrypoint : TRUE)
            \o (IF c.cmd = {} THEN <<>> ELSE CHOOSE v \in c.cmd : TRUE)

\* C19. A non-empty command after `--` is used unchanged; otherwise the
\* command is the image's entrypoint followed by its cmd; an empty result
\* configures no exec, any other gives its first word as the executable
\* and the rest as the arguments.
C19_EffectiveCommand ==
  uArgs.ran =>
    /\ uArgs.command # <<>> =>
         uExec = {[cmd |-> Head(uArgs.command), args |-> Tail(uArgs.command)]}
    /\ (uArgs.command = <<>> /\ ImageWords(uArgs.cfg) = <<>>) => uExec = {}
    /\ (uArgs.command = <<>> /\ ImageWords(uArgs.cfg) # <<>>) =>
         uExec = {[cmd |-> Head(ImageWords(uArgs.cfg)),
                   args |-> Tail(ImageWords(uArgs.cfg))]}

\* A run with its own command for an image that has an entrypoint and a
\* cmd: the command alone is executed.
C19_Witness ==
  /\ uArgs.ran /\ uArgs.command = <<"x", "y">>
  /\ \E c \in uArgs.cfg : c.entrypoint = {<<"e">>} /\ c.cmd = {<<"c">>}
  /\ uExec = {[cmd |-> "x", args |-> <<"y">>]}

\* A run without a command takes the entrypoint and then the cmd.
RunsImageCommand ==
  /\ uArgs.ran /\ uArgs.command = <<>>
  /\ \E c \in uArgs.cfg : c.entrypoint = {<<"e">>} /\ c.cmd = {<<"c">>}
  /\ uExec = {[cmd |-> "e", args |-> <<"c">>]}

\* C38. The builder of a run that reaches spawn_vm has been given exactly
\* one of root and root_disk: the --root-disk path when it is given;
\* otherwise, when --disk is set and the resolved rootfs path is not empty,
\* the base disk made from it; otherwise the resolved rootfs directory as
\* root.
C38_RootSelection ==
  uArgs.ran =>
    LET a == uRoot.args
        rootfs == IF a.image # {} THEN a.ensured.rootfs
                  ELSE IF a.root # {} THEN CHOOSE v \in a.root : TRUE
                  ELSE ""
    IN  /\ Cardinality(uRoot.root) + Cardinality(uRoot.root_disk) = 1
        /\ IF a.root_disk # {} THEN uRoot.root_disk = a.root_disk
           ELSE IF a.disk /\ rootfs # ""
           THEN a.made.ok /\ uRoot.root_disk = {a.made.path}
           ELSE uRoot.root = {rootfs}

\* A run of an image with --disk: the builder has the base disk as
\* root_disk and no root.
C38_Witness ==
  /\ uArgs.ran /\ uRoot.args.image = {"img"} /\ uRoot.args.disk
  /\ uRoot.root_disk = {"bases/h.raw"} /\ uRoot.root = {}

\* A run with --root "" and --disk: the builder has the empty root and no
\* root_disk.
EmptyRootWithDisk ==
  /\ uArgs.ran /\ uRoot.args.root = {""} /\ uRoot.args.disk
  /\ uRoot.root = {""} /\ uRoot.root_disk = {}

\* A run with --root-disk and --disk: the builder has the given disk.
RootDiskWithDisk ==
  /\ uArgs.ran /\ uRoot.args.root_disk = {"disk.raw"} /\ uRoot.args.disk
  /\ uRoot.root_disk = {"disk.raw"} /\ uRoot.root = {}

\* ------------------------------------------- ext4 image handles (bux-e2fs)
\* The ext2_filsys handles of Filesystem::create, create_from_dir and
\* inject_file. A handle is a positive number, 0 the null pointer; every
\* library call may fail.

VARIABLES
  fOp,       \* the call in progress: function, position, the handle it owns
  fHeld,     \* the handles of the Filesystem values returned to callers
  fOpened,   \* the handles ext2fs_initialize and ext2fs_open have returned
  fClosed,   \* per handle, the number of ext2fs_close calls on it
  fRet,      \* what the last call returned
  fLog       \* the library calls of the last call, with their error codes

fsVars == <<fOp, fHeld, fOpened, fClosed, fRet, fLog>>

MaxHandles == 3

NullFs == 0
NoFsOp == [f |-> "none", pc |-> "idle", inner |-> NullFs]
FsFunctions == {"create", "create_from_dir", "inject_file"}

\* A Drop that closes nothing.
Leak(inner) == UNCHANGED fClosed

\* Drop for Filesystem, lines 124-135.
Drop(inner) ==
  IF inner # NullFs
  THEN fClosed' = [fClosed EXCEPT ![inner] = @ + 1]
  ELSE UNCHANGED fClosed

\* The errcode_t values a library call returns: 0, ENOSPC, -1 and
\* EXT2_ET_BAD_MAGIC.
Codes == {0, 28, -1, 2133571347}

\* check, lines 427-436: Ok(()) for 0, Err(Ext2fs{op, code}) otherwise. res
\* is "Ok", or the op of the Ext2fs error.
CheckPositive(op, code) ==
  [res |-> IF code > 0 THEN op ELSE "Ok", code |-> IF code > 0 THEN code ELSE 0]
Check(op, code) ==
  [res |-> IF code = 0 THEN "Ok" ELSE op, code |-> code]

\* The library function has been called and has returned code.
Called(fn, code) == fLog' = Append(fLog, [fn |-> fn, code |-> code])

\* A return: the result goes to the caller and the locals are dropped (an
\* early return with `?` when the result is an error).
FsFails(r) ==
  /\ fRet' = [f |-> fOp.f, res |-> r.res, code |-> r.code, inner |-> fOp.inner]
  /\ fOp' = NoFsOp
  /\ UNCHANGED <<fHeld, fOpened>>

\* A call of one of the three functions; to_cstring of the path may fail
\* before any library call.
FsCall(f, path_ok) ==
  /\ fOp.pc = "idle"
  /\ Cardinality(fOpened) < MaxHandles
  /\ IF path_ok
     THEN /\ fOp' = [f |-> f, inner |-> NullFs,
                     pc |-> IF f = "inject_file" THEN "open" ELSE "initialize"]
          /\ UNCHANGED fRet
     ELSE fRet' = [f |-> f, res |-> "InvalidPath", code |-> 0,
                   inner |-> NullFs]
          /\ UNCHANGED fOp
  /\ fLog' = <<>>
  /\ UNCHANGED <<fHeld, fOpened, fClosed>>

\* Filesystem::create, lines 152-164: ext2fs_initialize; on success the
\* handle is wrapped at once, on failure nothing is wrapped.
Initialize(code) ==
  /\ fOp.pc = "initialize"
  /\ Called("ext2fs_initialize", code)
  /\ IF Check("ext2fs_initialize", code).res = "Ok"
     THEN /\ fOpened' = fOpened \cup {Cardinality(fOpened) + 1}
          /\ fOp' = [fOp EXCEPT !.pc = "allocate_tables",
                                !.inner = Cardinality(fOpened) + 1]
          /\ UNCHANGED <<fHeld, fClosed, fRet>>
     ELSE FsFails(Check("ext2fs_initialize", code)) /\ UNCHANGED fClosed

\* Filesystem::create, lines 165-169: ext2fs_allocate_tables; Ok(this)
\* moves the value to the caller.
AllocateTables(code) ==
  /\ fOp.pc = "allocate_tables"
  /\ Called("ext2fs_allocate_tables", code)
  /\ IF Check("ext2fs_allocate_tables", code).res # "Ok"
     THEN FsFails(Check("ext2fs_allocate_tables", code)) /\ Drop(fOp.inner)
     ELSE IF fOp.f = "create"
     THEN /\ fHeld' = fHeld \cup {fOp.inner}
          /\ fRet' = [f |-> fOp.f, res |-> "Ok", code |-> 0,
                      inner |-> fOp.inner]
          /\ fOp' = NoFsOp
          /\ UNCHANGED <<fOpened, fClosed>>
     ELSE /\ fOp' = [fOp EXCEPT !.pc = "populate"]
          /\ UNCHANGED <<fHeld, fOpened, fClosed, fRet>>

\* create_from_dir, line 385: fs.populate(source_dir)?.
Populate(code) ==
  /\ fOp.pc = "populate"
  /\ Called("populate_fs", code)
  /\ IF Check("populate_fs", code).res = "Ok"
     THEN /\ fOp' = [fOp EXCEPT !.pc = "add_journal"]
          /\ UNCHANGED <<fHeld, fOpened, fClosed, fRet>>
     ELSE FsFails(Check("populate_fs", code)) /\ Drop(fOp.inner)

\* create_from_dir, lines 386-388: fs.add_journal()?; Ok(()); fs goes out
\* of scope.
AddJournal(code) ==
  /\ fOp.pc = "add_journal"
  /\ Called("ext2fs_add_journal_inode", code)
  /\ FsFails(Check("ext2fs_add_journal_inode", code))
  /\ Drop(fOp.inner)

\* Filesystem::open, lines 180-193, called by inject_file, line 394.
Open(code) ==
  /\ fOp.pc = "open"
  /\ Called("ext2fs_open", code)
  /\ IF Check("ext2fs_open", code).res = "Ok"
     THEN /\ fOpened' = fOpened \cup {Cardinality(fOpened) + 1}
          /\ fOp' = [fOp EXCEPT !.pc = "write_file",
                                !.inner = Cardinality(fOpened) + 1]
          /\ UNCHANGED <<fHeld, fClosed, fRet>>
     ELSE FsFails(Check("ext2fs_open", code)) /\ UNCHANGED fClosed

\* inject_file, line 395: fs.write_file(host_file, guest_path); fs goes
\* out of scope.
WriteFile(code) ==
  /\ fOp.pc = "write_file"
  /\ Called("do_write_internal", code)
  /\ FsFails(Check("do_write_internal", code))
  /\ Drop(fOp.inner)

\* The methods of Filesystem that make one library call on the handle and
\* return its checked result, lines 201-364, and the `op` each gives check.
LibraryOp(method) ==
  CASE method = "populate" -> "populate_fs"
    [] method = "flush" -> "ext2fs_flush"
    [] method = "write_file" -> "do_write_internal"
    [] method = "mkdir" -> "do_mkdir_internal"
    [] method = "symlink" -> "do_symlink_internal"
    [] method = "add_journal" -> "ext2fs_add_journal_inode"
    [] method = "link" -> "ext2fs_link"
    [] method = "read_inode" -> "ext2fs_read_inode"
    [] method = "write_inode" -> "ext2fs_write_inode"
    [] method = "write_new_inode" -> "ext2fs_write_new_inode"
    [] method = "alloc_inode" -> "ext2fs_new_inode"
    [] method = "alloc_block" -> "ext2fs_new_block2"

Methods ==
  {"populate", "flush", "write_file", "mkdir", "symlink", "add_journal",
   "link", "read_inode", "write_inode", "write_new_inode", "alloc_inode",
   "alloc_block"}

\* A method call on a Filesystem value the caller holds.
Method(h, method, code) ==
  /\ fOp.pc = "idle"
  /\ h \in fHeld
  /\ fLog' = <<[fn |-> LibraryOp(method), code |-> code]>>
  /\ fRet' = [f |-> method, res |-> Check(LibraryOp(method), code).res,
              code |-> Check(LibraryOp(method), code).code, inner |-> h]
  /\ UNCHANGED <<fOp, fHeld, fOpened, fClosed>>

\* The caller of Filesystem::create lets go of the value.
CallerDrops(h) ==
  /\ h \in fHeld
  /\ fHeld' = fHeld \ {h}
  /\ Drop(h)
  /\ UNCHANGED <<fOp, fOpened, fRet, fLog>>

FsInit ==
  /\ fOp = NoFsOp /\ fHeld = {} /\ fOpened = {}
  /\ fClosed = [h \in NullFs..MaxHandles |-> 0]
  /\ fRet = [f |-> "none", res |-> "Ok", code |-> 0, inner |-> NullFs]
  /\ fLog = <<>>

\* The handles some Filesystem value still owns.
Owned == fHeld \cup ({fOp.inner} \ {NullFs})

ClosedAfterAllocateTables ==
  /\ fRet.f = "create" /\ fRet.res = "ext2fs_allocate_tables"
  /\ fRet.inner \in fOpened /\ fClosed[fRet.inner] = 1

\* The library calls of a function, in the order of its source.
CallsOf(f) ==
  CASE f = "create" -> <<"ext2fs_initialize", "ext2fs_allocate_tables">>
    [] f = "create_from_dir" ->
         <<"ext2fs_initialize", "ext2fs_allocate_tables", "populate_fs",
           "ext2fs_add_journal_inode">>
    [] f = "inject_file" -> <<"ext2fs_open", "do_write_internal">>
    [] OTHER -> <<LibraryOp(f)>>

MethodFailed ==
  /\ fRet.f = "mkdir" /\ fRet.res = "do_mkdir_internal" /\ fRet.code = 28
  /\ fRet.inner \in fHeld

\* ------------------------------------------------ chunked send (bux-proto)
\* One call of send_request_chunks or send_response_chunks: its arguments,
\* the data the loop has not sent yet, the frames written to the stream and
\* the call's result.
VARIABLES kCall, kRest, kOut, kRet

chunkVars == <<kCall, kRest, kOut, kRet>>

MaxData == 4
MaxChunk == 3

ChunkBytes == {1, 2}

\* The byte strings sent.
ChunkData == UNION {[1..n -> ChunkBytes] : n \in 0..MaxData}

Kinds == {"Request", "Response"}

Chunk(kind, bytes) == [kind |-> kind, type |-> "Chunk", data |-> bytes]

EndOfStream(kind) == [kind |-> kind, type |-> "EndOfStream"]

NoChunkCall == [kind |-> "none", data |-> <<>>, chunk_size |-> 1]

\* A leading slice that is always chunk_size long.
PaddedChunk(rest, chunk_size) ==
  [i \in 1..chunk_size |-> IF i <= Len(rest) THEN rest[i] ELSE 0]

\* The next slice of data.chunks(chunk_size): chunk_size bytes, or what is
\* left when that is less.
NextChunk(rest, chunk_size) ==
  SubSeq(rest, 1, IF Len(rest) < chunk_size THEN Len(rest) ELSE chunk_size)

\* The call begins; chunks(0) panics.
SendChunks(kind, data, chunk_size) ==
  /\ kRet # "running"
  /\ kCall' = [kind |-> kind, data |-> data, chunk_size |-> chunk_size]
  /\ kRest' = data
  /\ kOut' = <<>>
  /\ kRet' = IF chunk_size = 0 THEN "panic" ELSE "running"

\* One turn of the loop: send one Chunk frame, or return the write's error.
SendChunk(ok) ==
  /\ kRet = "running" /\ kRest # <<>>
  /\ IF ok
     THEN LET c == NextChunk(kRest, kCall.chunk_size)
          IN /\ kOut' = Append(kOut, Chunk(kCall.kind, c))
             /\ kRest' = SubSeq(kRest, Len(c) + 1, Len(kRest))
             /\ kRet' = kRet
     ELSE kRet' = "err" /\ UNCHANGED <<kOut, kRest>>
  /\ UNCHANGED kCall

\* After the loop: send EndOfStream and return its result.
SendEndOfStream(ok) ==
  /\ kRet = "running" /\ kRest = <<>>
  /\ IF ok
     THEN kOut' = Append(kOut, EndOfStream(kCall.kind)) /\ kRet' = "ok"
     ELSE kRet' = "err" /\ UNCHANGED kOut
  /\ UNCHANGED <<kCall, kRest>>

ChunkIdle ==
  /\ kCall = NoChunkCall /\ kRest = <<>> /\ kOut = <<>> /\ kRet = "none"

RECURSIVE Collected(_)
\* The Chunk frames' bytes, in order, as a receiver collects them.
Collected(frames) ==
  IF frames = <<>> THEN <<>>
  ELSE (IF frames[1].type = "Chunk" THEN frames[1].data ELSE <<>>)
         \o Collected(Tail(frames))

\* ceil(len / chunk_size)
CeilDiv(len, chunk_size) == (len + chunk_size - 1) \div chunk_size

ChunkFrames == {i \in 1..Len(kOut) : kOut[i].type = "Chunk"}

\* C22: a chunked send that returns Ok has written ceil(len / chunk_size)
\* Chunk frames of its message kind, each holding 1 to chunk_size bytes, and
\* then one EndOfStream frame and nothing else; the chunks' bytes in order
\* are the data, and empty data gives the EndOfStream frame alone.  No Chunk
\* frame written at any point of the call is empty or above chunk_size.
C22_ChunkedSend ==
  /\ \A i \in ChunkFrames :
       /\ kOut[i].kind = kCall.kind
       /\ Len(kOut[i].data) \in 1..kCall.chunk_size
  /\ kRet = "ok" =>
       /\ kCall.chunk_size >= 1
       /\ Len(kOut) = CeilDiv(Len(kCall.data), kCall.chunk_size) + 1
       /\ ChunkFrames = 1..(Len(kOut) - 1)
       /\ kOut[Len(kOut)] = EndOfStream(kCall.kind)
       /\ Collected(kOut) = kCall.data
       /\ kCall.data = <<>> => kOut = <<EndOfStream(kCall.kind)>>

\* A send of data that is not a multiple of chunk_size has returned Ok: the
\* last chunk is shorter than the others.
C22_Witness ==
  /\ kRet = "ok" /\ Len(kCall.data) = 4 /\ kCall.chunk_size = 3
  /\ Len(kOut) = 3 /\ Len(kOut[2].data) = 1

\* Empty data has been sent.
SentEmptyData == kRet = "ok" /\ kCall.data = <<>> /\ Len(kOut) = 1

\* ------------------------------------- concurrent create_base (bux, disk.rs)
\* Several callers of create_base on one bases directory. A file name of the
\* directory is <<digest, ".raw">> or <<digest, ".raw", ".tmp">>; a name refers
\* to a file (an inode), which stays the same file under rename and which a
\* builder that has opened it keeps writing to whatever its name becomes.

VARIABLES
  bNames,    \* bases directory: file name -> file id, 0 when absent
  bFiles,    \* file id -> [open: the builders writing to it,
             \*             mixed: opened while another builder had it open,
             \*             whole: it is the output of one successful build]
  bProc,     \* caller -> position in create_base, digest, file opened
  bCalls,    \* the number of create_base calls begun
  bApart     \* no two calls for one digest have overlapped

baseVars == <<bNames, bFiles, bProc, bCalls, bApart>>

MaxBuilds == 3

Builders == {1, 2}
FileIds == 1..MaxBuilds

\* base_path (line 52) and the staging name of create_base (line 68).
BaseName(digest) == <<digest, ".raw">>
TmpName(digest) == <<digest, ".raw", ".tmp">>
BaseNames == {BaseName(d) : d \in Digests} \cup {TmpName(d) : d \in Digests}

Exists(name) == bNames[name] # 0

\* has_base (lines 46-48).
HasBaseFile(digest) == Exists(BaseName(digest))

\* list_bases (lines 100-111): the names that end in ".raw", without it.
StripSuffixRaw(name) ==
  IF name[Len(name)] = ".raw" THEN SubSeq(name, 1, Len(name) - 1) ELSE <<>>

ListBases ==
  {StripSuffixRaw(n)[1] : n \in {x \in BaseNames :
                                   Exists(x) /\ StripSuffixRaw(x) # <<>>}}

NotBuilding == [pc |-> "idle", digest |-> "none", file |-> 0, ret |-> "none"]

Returns(p, ret) == bProc' = [bProc EXCEPT ![p] = [NotBuilding EXCEPT !.ret = ret]]

\* create_base, lines 60-63: the test for the image.
CbCall(p, digest) ==
  /\ bProc[p].pc = "idle"
  /\ bCalls < MaxBuilds
  /\ bCalls' = bCalls + 1
  /\ IF HasBaseFile(digest)
     THEN Returns(p, "Ok") /\ UNCHANGED bApart
     ELSE /\ bProc' = [bProc EXCEPT ![p] = [pc |-> "estimate",
                                            digest |-> digest,
                                            file |-> 0, ret |-> "none"]]
          /\ bApart' = (bApart /\ \A q \in Builders : bProc[q].digest # digest)
  /\ UNCHANGED <<bNames, bFiles>>

\* Line 65: estimate_image_size.
CbEstimate(p, ok) ==
  /\ bProc[p].pc = "estimate"
  /\ IF ok THEN bProc' = [bProc EXCEPT ![p].pc = "initialize"]
     ELSE Returns(p, "Err")
  /\ UNCHANGED <<bNames, bFiles, bCalls, bApart>>

\* The lowest file id not in use.
NewFile == CHOOSE f \in FileIds :
             /\ \A n \in BaseNames : bNames[n] # f
             /\ bFiles[f].open = {}
             /\ \A g \in FileIds :
                  ((\A n \in BaseNames : bNames[n] # g) /\ bFiles[g].open = {})
                    => f <= g

\* Line 69, the start of the build: the image file is opened under the
\* staging name, which makes it when it is not there; what the file held is
\* no longer the output of one build. The open may fail.
CbInitialize(p, ok) ==
  /\ bProc[p].pc = "initialize"
  /\ IF ok
     THEN LET tmp == TmpName(bProc[p].digest)
              f == IF Exists(tmp) THEN bNames[tmp] ELSE NewFile
          IN  /\ bNames' = [bNames EXCEPT ![tmp] = f]
              /\ bFiles' = [bFiles EXCEPT ![f] = [open |-> @.open \cup {p},
                                                  mixed |-> @.open # {},
                                                  whole |-> FALSE]]
              /\ bProc' = [bProc EXCEPT ![p].pc = "build", ![p].file = f]
     ELSE /\ Returns(p, "Err")
          /\ UNCHANGED <<bNames, bFiles>>
  /\ UNCHANGED <<bCalls, bApart>>

\* Line 69, the rest of the build: populate, add_journal and the close of
\* the handle. The file is the output of this build when the build succeeds
\* and no other builder has written to the file meanwhile.
CbBuild(p, ok) ==
  /\ bProc[p].pc = "build"
  /\ LET f == bProc[p].file IN
     bFiles' = [bFiles EXCEPT ![f] = [open |-> @.open \ {p},
                                     mixed |-> @.mixed,
                                     whole |-> ok /\ @.open = {p} /\ ~@.mixed]]
  /\ IF ok THEN bProc' = [bProc EXCEPT ![p].pc = "rename"]
     ELSE Returns(p, "Err")
  /\ UNCHANGED <<bNames, bCalls, bApart>>

\* Line 70: fs::rename(tmp, path), which fails when the staging name is gone.
Moved(names, from, to) == [names EXCEPT ![to] = names[from], ![from] = 0]

CbRename(p, ok) ==
  /\ bProc[p].pc = "rename"
  /\ IF ok /\ Exists(TmpName(bProc[p].digest))
     THEN /\ bNames' = Moved(bNames, TmpName(bProc[p].digest),
                             BaseName(bProc[p].digest))
          /\ Returns(p, "Ok")
     ELSE /\ Returns(p, "Err")
          /\ UNCHANGED bNames
  /\ UNCHANGED <<bFiles, bCalls, bApart>>

\* DiskManager::open on an empty data directory.
BaseInit ==
  /\ bNames = [n \in BaseNames |-> 0]
  /\ bFiles = [f \in FileIds |->
                 [open |-> {}, mixed |-> FALSE, whole |-> FALSE]]
  /\ bProc = [p \in Builders |-> NotBuilding]
  /\ bCalls = 0
  /\ bApart = TRUE

\* The file behind a name is the complete output of one successful build.
Whole(name) == bFiles[bNames[name]].whole /\ bFiles[bNames[name]].open = {}

\* C36. Whenever has_base(d) is true or list_bases returns d, the file at
\* base_path(d) is the complete output of one successful build; a file that
\* is being built, or whose build failed, is only under <digest>.raw.tmp,
\* and list_bases does not report it.
C36_BaseVisibility ==
  /\ \A d \in Digests :
       (HasBaseFile(d) \/ d \in ListBases) =>
         Exists(BaseName(d)) /\ Whole(BaseName(d))
  /\ \A n \in BaseNames :
       (Exists(n) /\ ~Whole(n)) =>
         n \in {TmpName(d) : d \in Digests} /\ StripSuffixRaw(n) = <<>>

\* The same while no two calls for one digest have overlapped.
VisibleWhileApart == bApart => C36_BaseVisibility

\* has_base(d) is true while a builder is still writing to the file, which
\* it opened after the other builder had closed it.
BaseInProgress ==
  \E d \in Digests, p \in Builders :
    /\ HasBaseFile(d)
    /\ bProc[p].pc = "build" /\ bProc[p].file = bNames[BaseName(d)]
    /\ ~bFiles[bProc[p].file].mixed

\* Both builders have returned, one of them after a failed build, and the
\* file that has_base and list_bases report is not the output of one build.
BrokenBaseStays ==
  \E d \in Digests :
    /\ d \in ListBases /\ ~Whole(BaseName(d))
    /\ \A p \in Builders : bProc[p].pc = "idle"

\* ------------------------------------- pre-exec hook (bux, jail/pre_exec.rs)
\* The file descriptors of the forked child before exec. The hook is built
\* for Linux, where it uses close_range (missing before Linux 5.9), or for
\* another Unix, where it closes one descriptor at a time below max_fd().

VARIABLES
  xIn,       \* the call: preserve_fd, the target, the descriptors inherited
  xOpen,     \* the descriptors open in the child
  xPc        \* "idle", "forked" (the hook has not run) or "done"

fdVars == <<xIn, xOpen, xPc>>

\* max_fd(): sysconf(_SC_OPEN_MAX); descriptors are below it.
MaxFd == 7

Fds == 0..(MaxFd - 1)
Stdio == {0, 1, 2}
OptFd == {{}} \cup {{fd} : fd \in Fds}

\* close_range(first, last, 0) when the kernel has the call.
CloseRange(open, first, last) == {fd \in open : fd < first \/ fd > last}
\* close_range(first, u32::MAX, 0).
CloseFrom(open, first) == {fd \in open : fd < first}

\* close_fd_range, lines 108-112.
CloseFdRange(open, start, end) == {fd \in open : fd < start \/ fd >= end}

\* close_all_fds, lines 52-63.
CloseAllFds(open, linux, has_close_range) ==
  IF linux /\ has_close_range THEN CloseFrom(open, 3)
  ELSE CloseFdRange(open, 3, MaxFd)

\* close_fds_preserving, lines 70-95. On Linux the results of the two
\* close_range calls are not looked at and the function returns after them.
CloseFdsPreserving(open, keep, linux, has_close_range) ==
  IF linux
  THEN IF has_close_range
       THEN CloseFrom(IF keep > 3 THEN CloseRange(open, 3, keep - 1) ELSE open,
                      keep + 1)
       ELSE open
  ELSE {fd \in open : ~(fd >= 3 /\ fd < MaxFd /\ fd # keep)}

\* close_inherited_fds, lines 43-48.
CloseInheritedFds(open, preserve, linux, has_close_range) ==
  IF preserve # {}
  THEN CloseFdsPreserving(open, CHOOSE k \in preserve : TRUE, linux,
                          has_close_range)
  ELSE CloseAllFds(open, linux, has_close_range)

\* fork: the child has the standard descriptors, any others of the parent,
\* and the descriptor to preserve.
Forked(preserve, linux, has_close_range, others) ==
  /\ xPc \in {"idle", "done"}
  /\ xIn' = [preserve |-> preserve, linux |-> linux,
             has_close_range |-> linux /\ has_close_range,
             inherited |-> Stdio \cup others \cup preserve]
  /\ xOpen' = Stdio \cup others \cup preserve
  /\ xPc' = "forked"

\* The pre_exec closure of apply, lines 22-39.
PreExec ==
  /\ xPc = "forked"
  /\ xOpen' = CloseInheritedFds(xOpen, xIn.preserve, xIn.linux,
                                xIn.has_close_range)
  /\ xPc' = "done"
  /\ UNCHANGED xIn

FdInit ==
  /\ xIn = [preserve |-> {}, linux |-> TRUE, has_close_range |-> TRUE,
            inherited |-> Stdio]
  /\ xOpen = Stdio
  /\ xPc = "idle"

\* C39. After the hook, for every preserve_fd: every inherited descriptor
\* >= 3 other than preserve_fd is closed, preserve_fd is still open, and the
\* descriptors 0, 1 and 2 are open.
C39_FdCleanup ==
  xPc = "done" =>
    /\ \A fd \in xIn.inherited :
         (fd >= 3 /\ fd \notin xIn.preserve) => fd \notin xOpen
    /\ xIn.preserve \subseteq xOpen
    /\ Stdio \subseteq xOpen

\* The same when nothing is preserved, or a descriptor from 2 up with a
\* hook that has a working close_range or is not built for Linux.
CleanupAboveStderr ==
  (xPc = "done"
     /\ \/ xIn.preserve = {}
        \/ /\ \A k \in xIn.preserve : k >= 2
           /\ ~xIn.linux \/ xIn.has_close_range) =>
    /\ \A fd \in xIn.inherited :
         (fd >= 3 /\ fd \notin xIn.preserve) => fd \notin xOpen
    /\ xIn.preserve \subseteq xOpen
    /\ Stdio \subseteq xOpen

\* preserve_fd is Some(1) and the hook has closed descriptor 2.
StderrClosed ==
  /\ xPc = "done" /\ xIn.preserve = {1}
  /\ 2 \notin xOpen /\ 1 \in xOpen

\* preserve_fd is Some(5) on a kernel without close_range and the hook has
\* closed nothing.
NothingClosed ==
  /\ xPc = "done" /\ xIn.preserve = {5} /\ ~xIn.has_close_range
  /\ {3, 4, 5, 6} \subseteq xOpen

\* ------------------------------------------------ shim (bux, bin/shim.rs)
\* One run of bux-shim: the arguments after the program name, the files at
\* the paths it may be given, and the position of main.

VARIABLES
  mArgs,     \* the arguments after the program name
  mFiles,    \* path -> the file there
  mPc,       \* "idle", "main", "read", "parse", "build", "vmm" or "exited"
  mJson,     \* the text read from the config file
  mExit,     \* the exit status, {} while the process has not exited
  mWhy       \* the step that ended the process

shimVars == <<mArgs, mFiles, mPc, mJson, mExit, mWhy>>

Paths == {"a.json", "b.json"}

\* What a file holds: a serialized VmConfig, or text that is not JSON.
Contents == {"config", "text"}

Absent == [there |-> FALSE, content |-> "", readable |-> FALSE,
           locked |-> FALSE]

\* A file is readable or not, and sits in a directory the process may or
\* may not unlink from (locked).
FileStates ==
  {Absent} \cup [there : {TRUE}, content : Contents, readable : BOOLEAN,
                 locked : BOOLEAN]

\* std::fs::read_to_string: the text, or nothing for an error.
ReadToString(files, path) ==
  IF files[path].there /\ files[path].readable
  THEN <<files[path].content>> ELSE <<>>

\* The file is kept: no unlink at all.
LeaveFile(files, path) == files

\* std::fs::remove_file, line 31; its result is dropped (let _ =).
RemoveFile(files, path) ==
  IF files[path].there /\ ~files[path].locked
  THEN [files EXCEPT ![path] = Absent] ELSE files

\* serde_json::from_str::<VmConfig>, line 40: does the text parse.
FromStr(json) == json = "config"

\* Vm::start enters the VMM and does not return, or returns an error.
VmStart(entered) == IF entered THEN "vmm" ELSE "start"

\* std::process::exit(1).
ExitOne(why) ==
  /\ mPc' = "exited"
  /\ mExit' = {1}
  /\ mWhy' = why

\* The process is started with its arguments and the files as they are.
ShimLaunch(args, files) ==
  /\ mPc \in {"idle", "vmm", "exited"}
  /\ mArgs' = args
  /\ mFiles' = files
  /\ mPc' = "main"
  /\ mJson' = ""
  /\ mExit' = {}
  /\ mWhy' = ""

\* main, lines 23-26: argv[1] or the usage message.
ConfigPath ==
  /\ mPc = "main"
  /\ IF Len(mArgs) = 0
     THEN ExitOne("usage")
     ELSE mPc' = "read" /\ UNCHANGED <<mExit, mWhy>>
  /\ UNCHANGED <<mArgs, mFiles, mJson>>

\* main, lines 29-38: read the file and, when that worked, unlink it.
ReadConfig ==
  /\ mPc = "read"
  /\ LET json == ReadToString(mFiles, mArgs[1])
     IN IF json # <<>>
        THEN /\ mFiles' = RemoveFile(mFiles, mArgs[1])
             /\ mJson' = json[1]
             /\ mPc' = "parse"
             /\ UNCHANGED <<mExit, mWhy>>
        ELSE /\ ExitOne("read")
             /\ UNCHANGED <<mFiles, mJson>>
  /\ UNCHANGED mArgs

\* main, lines 40-46.
ParseConfig ==
  /\ mPc = "parse"
  /\ IF FromStr(mJson)
     THEN mPc' = "build" /\ UNCHANGED <<mExit, mWhy>>
     ELSE ExitOne("parse")
  /\ UNCHANGED <<mArgs, mFiles, mJson>>

\* main, lines 48-57: from_config, build().and_then(Vm::start). The Ok arm
\* is unreachable!(): start does not return Ok.
BuildStart(built, entered) ==
  /\ mPc = "build"
  /\ LET to == IF built THEN VmStart(entered) ELSE "build"
     IN IF to = "vmm"
        THEN mPc' = "vmm" /\ UNCHANGED <<mExit, mWhy>>
        ELSE ExitOne(to)
  /\ UNCHANGED <<mArgs, mFiles, mJson>>

ShimInit ==
  /\ mArgs = <<>>
  /\ mFiles = [p \in Paths |-> Absent]
  /\ mPc = "idle"
  /\ mJson = ""
  /\ mExit = {}
  /\ mWhy = ""

\* The config file has been read: main is past line 38.
PastRead ==
  \/ mPc \in {"parse", "build", "vmm"}
  \/ mPc = "exited" /\ mWhy \in {"parse", "build", "start"}

\* C40. The config file is removed once it has been read and before the
\* JSON is parsed, so it does not exist when parsing, build or start fails;
\* every failure ends the process with exit status 1; a successful start
\* does not end the process.
C40_ShimOrder ==
  /\ PastRead => ~mFiles[mArgs[1]].there
  /\ mPc = "exited" => mExit = {1}
  /\ mPc = "vmm" => mExit = {}

\* C40 as the code has it: remove_file is called once the file has been
\* read and before the JSON is parsed, and its result is dropped, so past
\* the read the file exists exactly when the unlink was refused; every
\* failure ends the process with exit status 1; a successful start does not
\* end the process.
C40_ShimOrderBestEffort ==
  /\ PastRead => (mFiles[mArgs[1]].there <=> mFiles[mArgs[1]].locked)
  /\ mPc = "exited" => mExit = {1}
  /\ mPc = "vmm" => mExit = {}

\* Parsing failed and the config file is gone.
C40_Witness ==
  /\ mPc = "exited" /\ mWhy = "parse"
  /\ ~mFiles[mArgs[1]].there

\* Parsing failed and the config file is still there: the unlink was
\* refused.
ConfigLeftBehind ==
  /\ mPc = "exited" /\ mWhy = "parse"
  /\ mFiles[mArgs[1]].there

\* The VMM was entered with the config file gone.
EnteredVmm == mPc = "vmm" /\ ~mFiles[mArgs[1]].there

\* ------------------------------------------------------------ host side
\* The variables of the models that follow the host's.
moreVars == <<baseVars, fdVars, shimVars>>

MoreInit == BaseInit /\ FdInit /\ ShimInit

etcVars == <<chunkVars, shutVars, moreVars>>

EtcInit == ChunkIdle /\ ShutInit /\ MoreInit

hostVars == <<diskVars, estVars, rtVars, runVars, fsVars, etcVars>>

HostInit == DiskInit /\ EstInit /\ RtInit /\ RunInit /\ FsInit /\ EtcInit

\* ---------------------------------------------------------- specifications

vars == <<codecVars, agentVars, clientVars, storeVars, hostVars>>

CodecIdle ==
  /\ cKind = "Request" /\ cWire = <<>> /\ cEof = FALSE /\ cSent = <<>>
  /\ cRaw = FALSE /\ cGot = <<>> /\ cOut = <<>> /\ cBytes = 0

AgentIdle ==
  /\ script = <<>> /\ hIdx = 0 /\ net = <<>> /\ rbuf = <<>>
  /\ hostGone = FALSE /\ a2h = <<>> /\ ag = AgentStart /\ child = NoChild
  /\ aReqs = <<>> /\ aLog = <<>>

\* The codec alone.
InitCodec ==
  CodecInit /\ AgentIdle /\ ClientInit /\ StoreInit /\ HostInit

NextCodec ==
  \/ (\E m \in Samples(cKind) : CSend(m)) /\ UNCHANGED <<agentVars, clientVars, storeVars, hostVars>>
  \/ (\E h \in RawHeaders : CRawHeader(h))
       /\ UNCHANGED <<agentVars, clientVars, storeVars, hostVars>>
  \/ CClose /\ UNCHANGED <<agentVars, clientVars, storeVars, hostVars>>
  \/ CRecv /\ UNCHANGED <<agentVars, clientVars, storeVars, hostVars>>

SpecCodec == InitCodec /\ [][NextCodec]_vars

\* The agent with a host that writes frames of its own.
InitAgent ==
  AgentInit /\ CodecIdle /\ ClientInit /\ StoreInit /\ HostInit

NextAgent ==
  \/ HostSend /\ UNCHANGED <<codecVars, clientVars, storeVars, hostVars>>
  \/ (\E k \in 1..BLen(net) : Deliver(k)) /\ UNCHANGED <<codecVars, clientVars, storeVars, hostVars>>
  \/ HostClose /\ UNCHANGED <<codecVars, clientVars, storeVars, hostVars>>
  \/ SessRecv /\ UNCHANGED <<codecVars, clientVars, storeVars, hostVars>>
  \/ ExecHostPoll /\ UNCHANGED <<codecVars, clientVars, storeVars, hostVars>>
  \/ ExecReadStdout /\ UNCHANGED <<codecVars, clientVars, storeVars, hostVars>>
  \/ ExecReadStderr /\ UNCHANGED <<codecVars, clientVars, storeVars, hostVars>>
  \/ ExecBreak /\ UNCHANGED <<codecVars, clientVars, storeVars, hostVars>>
  \/ ExecWait /\ UNCHANGED <<codecVars, clientVars, storeVars, hostVars>>
  \/ ChildStep /\ UNCHANGED <<codecVars, clientVars, storeVars, hostVars>>

SpecAgent == InitAgent /\ [][NextAgent]_vars

\* The agent with the further hosts.
InitSession ==
  SessionInit /\ CodecIdle /\ ClientInit /\ StoreInit /\ HostInit

NextSession ==
  \/ HostSend /\ UNCHANGED <<codecVars, clientVars, storeVars, hostVars>>
  \/ (\E k \in {2, 5} : HostCut(k))
       /\ UNCHANGED <<codecVars, clientVars, storeVars, hostVars>>
  \/ (\E k \in Pieces : Deliver(k))
       /\ UNCHANGED <<codecVars, clientVars, storeVars, hostVars>>
  \/ HostClose /\ UNCHANGED <<codecVars, clientVars, storeVars, hostVars>>
  \/ SessRecv /\ UNCHANGED <<codecVars, clientVars, storeVars, hostVars>>
  \/ ExecHostPoll /\ UNCHANGED <<codecVars, clientVars, storeVars, hostVars>>
  \/ ExecReadStdout /\ UNCHANGED <<codecVars, clientVars, storeVars, hostVars>>
  \/ ExecReadStderr /\ UNCHANGED <<codecVars, clientVars, storeVars, hostVars>>
  \/ ExecBreak /\ UNCHANGED <<codecVars, clientVars, storeVars, hostVars>>
  \/ ExecWait /\ UNCHANGED <<codecVars, clientVars, storeVars, hostVars>>
  \/ ChildStep /\ UNCHANGED <<codecVars, clientVars, storeVars, hostVars>>
  \/ (\E out \in BOOLEAN : ExecReadError(out))
       /\ UNCHANGED <<codecVars, clientVars, storeVars, hostVars>>

SpecSession == InitSession /\ [][NextSession]_vars

\* The sessions of a host whose Stdin frames race with the child's exit.
InitRace == RaceInit /\ CodecIdle /\ ClientInit /\ StoreInit /\ HostInit

SpecRace == InitRace /\ [][NextSession]_vars

\* Sessions of one Exec with stdin, with the progress the claim's case
\* depends on: the loop is left when both streams are done, bytes in flight
\* arrive and a child that can run does. Reads of the child's pipes need not
\* fail and the host need not write or close.
InitCancel == CancelInit /\ CodecIdle /\ ClientInit /\ StoreInit /\ HostInit

SpecCancel ==
  /\ InitCancel /\ [][NextSession]_vars
  /\ WF_agentVars(ExecBreak)
  /\ WF_agentVars(ChildStep)
  /\ WF_agentVars(\E k \in Pieces : Deliver(k))

\* The part of the agent's state the client does not touch.
agentSide == <<script, hIdx, rbuf, hostGone, ag, child, aReqs, aLog>>

\* The Client, used by two callers, connected to the agent.
InitClient ==
  ClientInit /\ AgentIdle /\ CodecIdle /\ StoreInit /\ HostInit

NextClient ==
  \/ (\E c \in Callers, op \in ClientOps : CallStart(c, op))
       /\ UNCHANGED <<codecVars, agentSide, storeVars, hostVars>>
  \/ (\E c \in Callers : CallSend(c))
       /\ UNCHANGED <<codecVars, agentSide, storeVars, hostVars>>
  \/ (\E c \in Callers : CallRecv(c))
       /\ UNCHANGED <<codecVars, agentSide, storeVars, hostVars>>
  \/ net # <<>> /\ Deliver(BLen(net)) /\ UNCHANGED <<codecVars, clientVars, storeVars, hostVars>>
  \/ SessRecv /\ UNCHANGED <<codecVars, clientVars, storeVars, hostVars>>
  \/ ExecHostPoll /\ UNCHANGED <<codecVars, clientVars, storeVars, hostVars>>
  \/ ExecReadStdout /\ UNCHANGED <<codecVars, clientVars, storeVars, hostVars>>
  \/ ExecReadStderr /\ UNCHANGED <<codecVars, clientVars, storeVars, hostVars>>
  \/ ExecBreak /\ UNCHANGED <<codecVars, clientVars, storeVars, hostVars>>
  \/ ExecWait /\ UNCHANGED <<codecVars, clientVars, storeVars, hostVars>>
  \/ ChildStep /\ UNCHANGED <<codecVars, clientVars, storeVars, hostVars>>

SpecClient == InitClient /\ [][NextClient]_vars

\* The Client, one call, connected to a peer that writes what it likes.
NextClientStream ==
  \/ (\E op \in StreamOps : CallStart(1, op))
       /\ UNCHANGED <<codecVars, agentSide, storeVars, hostVars>>
  \/ CallSend(1)
       /\ UNCHANGED <<codecVars, agentSide, storeVars, hostVars>>
  \/ CallRecv(1)
       /\ UNCHANGED <<codecVars, agentSide, storeVars, hostVars>>
  \/ (\E m \in PeerFrames : PeerSend(m))
       /\ UNCHANGED <<codecVars, agentSide, storeVars, hostVars>>
  \/ PeerShutdown
       /\ UNCHANGED <<codecVars, agentSide, storeVars, hostVars>>

SpecClientStream == InitClient /\ [][NextClientStream]_vars

\* The rest of the state when the two connections act.
besides == <<codecVars, storeVars, diskVars, estVars, rtVars, runVars, fsVars,
             chunkVars, moreVars>>

\* Two callers of exec_stream or exec on the first connection and a
\* Shutdown on the second.
NextShutdown ==
  \/ (\E c \in Callers, op \in ExecOps : CallStart(c, op))
       /\ UNCHANGED <<besides, agentSide, shutVars>>
  \/ (\E c \in Callers : CallSend(c))
       /\ UNCHANGED <<besides, agentSide, shutVars>>
  \/ (\E c \in Callers : CallRecv(c))
       /\ UNCHANGED <<besides, agentSide, shutVars>>
  \/ net # <<>> /\ Deliver(BLen(net)) /\ UNCHANGED <<besides, clientVars, shutVars>>
  \/ SessRecv /\ UNCHANGED <<besides, clientVars, shutVars>>
  \/ ExecHostPoll /\ UNCHANGED <<besides, clientVars, shutVars>>
  \/ ExecReadStdout /\ UNCHANGED <<besides, clientVars, shutVars>>
  \/ ExecReadStderr /\ UNCHANGED <<besides, clientVars, shutVars>>
  \/ ExecBreak /\ UNCHANGED <<besides, clientVars, shutVars>>
  \/ ExecWait /\ UNCHANGED <<besides, clientVars, shutVars>>
  \/ ChildStep /\ UNCHANGED <<besides, clientVars, shutVars>>
  \/ OtherSend /\ UNCHANGED besides
  \/ (\E keep \in {0, 4, BLen(a2h)} : OtherShutdown(keep))
       /\ UNCHANGED besides

SpecShutdown == InitClient /\ [][NextShutdown]_vars

\* The image store, operations one after the other.
InitStore ==
  StoreInit /\ CodecIdle /\ AgentIdle /\ ClientInit /\ HostInit

NextStore ==
  \/ (\E r \in Refs : PullStart(r))
       /\ UNCHANGED <<codecVars, agentVars, clientVars, hostVars>>
  \/ (\E r \in Refs : EnsureStart(r))
       /\ UNCHANGED <<codecVars, agentVars, clientVars, hostVars>>
  \/ PullLayerCached /\ UNCHANGED <<codecVars, agentVars, clientVars, hostVars>>
  \/ PullCreate /\ UNCHANGED <<codecVars, agentVars, clientVars, hostVars>>
  \/ PullDownload /\ UNCHANGED <<codecVars, agentVars, clientVars, hostVars>>
  \/ PullCommitRename /\ UNCHANGED <<codecVars, agentVars, clientVars, hostVars>>
  \/ PullCommitRow /\ UNCHANGED <<codecVars, agentVars, clientVars, hostVars>>
  \/ PullConfig /\ UNCHANGED <<codecVars, agentVars, clientVars, hostVars>>
  \/ PullStage /\ UNCHANGED <<codecVars, agentVars, clientVars, hostVars>>
  \/ PullExtract /\ UNCHANGED <<codecVars, agentVars, clientVars, hostVars>>
  \/ PullCommitRootfs /\ UNCHANGED <<codecVars, agentVars, clientVars, hostVars>>
  \/ PullIndex /\ UNCHANGED <<codecVars, agentVars, clientVars, hostVars>>
  \/ (\E r \in Refs : Remove(r))
       /\ UNCHANGED <<codecVars, agentVars, clientVars, hostVars>>

SpecStore == InitStore /\ [][NextStore]_vars

\* The store with operations that may be interrupted.
NextStoreCrash ==
  \/ (\E r \in Refs : PullStart(r))
       /\ UNCHANGED <<codecVars, agentVars, clientVars, hostVars>>
  \/ PullLayerCached /\ UNCHANGED <<codecVars, agentVars, clientVars, hostVars>>
  \/ PullCreate /\ UNCHANGED <<codecVars, agentVars, clientVars, hostVars>>
  \/ PullDownload /\ UNCHANGED <<codecVars, agentVars, clientVars, hostVars>>
  \/ PullCommitRename /\ UNCHANGED <<codecVars, agentVars, clientVars, hostVars>>
  \/ PullCommitRow /\ UNCHANGED <<codecVars, agentVars, clientVars, hostVars>>
  \/ PullConfig /\ UNCHANGED <<codecVars, agentVars, clientVars, hostVars>>
  \/ PullStage /\ UNCHANGED <<codecVars, agentVars, clientVars, hostVars>>
  \/ PullExtract /\ UNCHANGED <<codecVars, agentVars, clientVars, hostVars>>
  \/ PullCommitRootfs /\ UNCHANGED <<codecVars, agentVars, clientVars, hostVars>>
  \/ PullIndex /\ UNCHANGED <<codecVars, agentVars, clientVars, hostVars>>
  \/ (\E r \in Refs : Remove(r))
       /\ UNCHANGED <<codecVars, agentVars, clientVars, hostVars>>
  \/ PullCrash /\ UNCHANGED <<codecVars, agentVars, clientVars, hostVars>>
  \/ (\E r \in Refs : RemoveCrash(r))
       /\ UNCHANGED <<codecVars, agentVars, clientVars, hostVars>>

SpecStoreCrash == InitStore /\ [][NextStoreCrash]_vars

\* The disk manager.
InitHost ==
  CodecIdle /\ AgentIdle /\ ClientInit /\ StoreInit /\ HostInit

notHost == <<codecVars, agentVars, clientVars, storeVars>>

NextDisk ==
  \/ (\E r \in RootfsDirs, d \in Digests, how \in CreateOutcomes :
        CreateBase(r, d, how))
       /\ UNCHANGED <<notHost, estVars, rtVars, runVars, fsVars, etcVars>>
  \/ (\E d \in Digests : RemoveBase(d))
       /\ UNCHANGED <<notHost, estVars, rtVars, runVars, fsVars, etcVars>>

SpecDisk == InitHost /\ [][NextDisk]_vars

\* The image size estimate.
NextEstimate ==
  \/ (\E e \in Entries : AddEntry(e))
       /\ UNCHANGED <<notHost, diskVars, rtVars, runVars, fsVars, etcVars>>
  \/ (\E checks \in BOOLEAN : Estimate(checks))
       /\ UNCHANGED <<notHost, diskVars, rtVars, runVars, fsVars, etcVars>>

SpecEstimate == InitHost /\ [][NextEstimate]_vars

\* The runtime: commands from any number of bux processes, one stop() at a
\* time. The steps of stop() are taken eventually once enabled; whether and
\* when a VM ends by itself is not promised.
NextRuntime ==
  \/ (\E id \in VmIds, name \in {{}} \cup {{n} : n \in VmNames} :
        Spawn(id, name))
       /\ UNCHANGED <<notHost, diskVars, estVars, runVars, fsVars, etcVars>>
  \/ (\E q \in Queries : Inspect(q))
       /\ UNCHANGED <<notHost, diskVars, estVars, runVars, fsVars, etcVars>>
  \/ (\E id \in VmIds : VmExit(id))
       /\ UNCHANGED <<notHost, diskVars, estVars, runVars, fsVars, etcVars>>
  \/ (\E q \in Queries : StopBegin(q))
       /\ UNCHANGED <<notHost, diskVars, estVars, runVars, fsVars, etcVars>>
  \/ (\E reached \in BOOLEAN : StopSend(reached))
       /\ UNCHANGED <<notHost, diskVars, estVars, runVars, fsVars, etcVars>>
  \/ StopWaited /\ UNCHANGED <<notHost, diskVars, estVars, runVars, fsVars, etcVars>>
  \/ StopTimeout /\ UNCHANGED <<notHost, diskVars, estVars, runVars, fsVars, etcVars>>
  \/ StopKill /\ UNCHANGED <<notHost, diskVars, estVars, runVars, fsVars, etcVars>>
  \/ StopMark /\ UNCHANGED <<notHost, diskVars, estVars, runVars, fsVars, etcVars>>
  \/ (\E q \in Queries : Kill(q))
       /\ UNCHANGED <<notHost, diskVars, estVars, runVars, fsVars, etcVars>>
  \/ (\E q \in Queries : Rm(q))
       /\ UNCHANGED <<notHost, diskVars, estVars, runVars, fsVars, etcVars>>
  \/ Ps /\ UNCHANGED <<notHost, diskVars, estVars, runVars, fsVars, etcVars>>

StopSteps ==
  \/ \E reached \in BOOLEAN : StopSend(reached)
  \/ StopWaited
  \/ StopTimeout
  \/ StopKill
  \/ StopMark

SpecRuntime ==
  InitHost /\ [][NextRuntime]_vars /\ WF_rtVars(StopSteps)

\* bux run.
NextRun ==
  (\E command \in Words, a \in RootArgs : Run(command, a))
    /\ UNCHANGED <<notHost, diskVars, estVars, rtVars, fsVars, etcVars>>

SpecRun == InitHost /\ [][NextRun]_vars

\* The ext4 image functions.
NextFs ==
  \/ (\E f \in FsFunctions, path_ok \in BOOLEAN : FsCall(f, path_ok))
       /\ UNCHANGED <<notHost, diskVars, estVars, rtVars, runVars, etcVars>>
  \/ (\E code \in Codes : Initialize(code))
       /\ UNCHANGED <<notHost, diskVars, estVars, rtVars, runVars, etcVars>>
  \/ (\E code \in Codes : AllocateTables(code))
       /\ UNCHANGED <<notHost, diskVars, estVars, rtVars, runVars, etcVars>>
  \/ (\E code \in Codes : Populate(code))
       /\ UNCHANGED <<notHost, diskVars, estVars, rtVars, runVars, etcVars>>
  \/ (\E code \in Codes : AddJournal(code))
       /\ UNCHANGED <<notHost, diskVars, estVars, rtVars, runVars, etcVars>>
  \/ (\E code \in Codes : Open(code))
       /\ UNCHANGED <<notHost, diskVars, estVars, rtVars, runVars, etcVars>>
  \/ (\E code \in Codes : WriteFile(code))
       /\ UNCHANGED <<notHost, diskVars, estVars, rtVars, runVars, etcVars>>
  \/ (\E h \in fHeld, method \in Methods, code \in Codes :
        Method(h, method, code))
       /\ UNCHANGED <<notHost, diskVars, estVars, rtVars, runVars, etcVars>>
  \/ (\E h \in fHeld : CallerDrops(h))
       /\ UNCHANGED <<notHost, diskVars, estVars, rtVars, runVars, etcVars>>

SpecFs == InitHost /\ [][NextFs]_vars

\* Chunked sends of either message kind, with writes that succeed or fail.
NextChunks ==
  \/ (\E kind \in Kinds, data \in ChunkData, chunk_size \in 0..MaxChunk :
        SendChunks(kind, data, chunk_size))
       /\ UNCHANGED <<notHost, diskVars, estVars, rtVars, runVars, fsVars,
                      shutVars, moreVars>>
  \/ (\E ok \in BOOLEAN : SendChunk(ok))
       /\ UNCHANGED <<notHost, diskVars, estVars, rtVars, runVars, fsVars,
                      shutVars, moreVars>>
  \/ (\E ok \in BOOLEAN : SendEndOfStream(ok))
       /\ UNCHANGED <<notHost, diskVars, estVars, rtVars, runVars, fsVars,
                      shutVars, moreVars>>

SpecChunks == InitHost /\ [][NextChunks]_vars

others == <<notHost, diskVars, estVars, rtVars, runVars, fsVars, chunkVars,
            shutVars>>

\* Concurrent callers of create_base.
NextBases ==
  \/ (\E p \in Builders, d \in Digests : CbCall(p, d))
       /\ UNCHANGED <<others, fdVars, shimVars>>
  \/ (\E p \in Builders, ok \in BOOLEAN : CbEstimate(p, ok))
       /\ UNCHANGED <<others, fdVars, shimVars>>
  \/ (\E p \in Builders, ok \in BOOLEAN : CbInitialize(p, ok))
       /\ UNCHANGED <<others, fdVars, shimVars>>
  \/ (\E p \in Builders, ok \in BOOLEAN : CbBuild(p, ok))
       /\ UNCHANGED <<others, fdVars, shimVars>>
  \/ (\E p \in Builders, ok \in BOOLEAN : CbRename(p, ok))
       /\ UNCHANGED <<others, fdVars, shimVars>>

SpecBases == InitHost /\ [][NextBases]_vars

\* The pre-exec hook of a forked child.
NextPreExec ==
  \/ (\E preserve \in OptFd, linux \in BOOLEAN, has_close_range \in BOOLEAN,
         more \in SUBSET (Fds \ Stdio) :
        Forked(preserve, linux, has_close_range, more))
       /\ UNCHANGED <<others, baseVars, shimVars>>
  \/ PreExec /\ UNCHANGED <<others, baseVars, shimVars>>

SpecPreExec == InitHost /\ [][NextPreExec]_vars

\* Runs of the shim.
NextShim ==
  \/ (\E args \in {<<>>} \cup {<<p>> : p \in Paths},
         files \in [Paths -> FileStates] : ShimLaunch(args, files))
       /\ UNCHANGED <<others, baseVars, fdVars>>
  \/ ConfigPath /\ UNCHANGED <<others, baseVars, fdVars>>
  \/ ReadConfig /\ UNCHANGED <<others, baseVars, fdVars>>
  \/ ParseConfig /\ UNCHANGED <<others, baseVars, fdVars>>
  \/ (\E built \in BOOLEAN, entered \in BOOLEAN : BuildStart(built, entered))
       /\ UNCHANGED <<others, baseVars, fdVars>>

SpecShim == InitHost /\ [][NextShim]_vars

=============================================================================
